---- MODULE Spec2Model ----
(***************************************************************************)
(* A model of zombiezen.com/go/lua: the State ledger (ptr, top, cap) kept  *)
(* by the Go binding, the Lua VM it drives (stack, call frames, heap,      *)
(* registry), the cgo.Handle table, and the callback trampolines.          *)
(*                                                                         *)
(* Every Go method is an operator from a machine record m to the machine   *)
(* record after the call.  m.l is the State the method is called on,       *)
(* m.panic the message of the Go panic that ended the call ("" if none),   *)
(* m.ub whether a foreign call was made outside the C API's contract with  *)
(* an unpredictable result, m.ret the value returned.  A panic leaves the  *)
(* machine as it was when the panic was raised.                            *)
(***************************************************************************)
EXTENDS Integers, Sequences, FiniteSets, TLC

VARIABLES
    l,        \* the State user code is operating on: [ptr, top, cap]
    callers,  \* suspended Call invocations, innermost last
    stack,    \* the VM's value stack (all frames)
    ci,       \* the VM's CallInfo chain: [func, top], innermost last
    heap,     \* the VM's collectable objects, by id
    gmt,      \* the VM's metatables of the basic types (G(L)->mt), by type
    handles,  \* the runtime/cgo handle table
    res,      \* outcome of the last operation
    ub,       \* the process has run into undefined behaviour
    nOps,     \* operations performed so far
    profile   \* which operations and inputs this run draws from

vars == <<l, callers, stack, ci, heap, gmt, handles, res, ub, nOps, profile>>

\* ----------------------------------------------------------------- bounds
\* Operations per run, by profile.
MaxOps == 3
MaxOpsStack == 4
MaxOpsHandle == 4
MaxOpsFinalizer == 6
MaxOpsCall == 4
MaxOpsReserve == 4
MaxOpsClosure == 5
MaxOpsTrampoline == 7
MaxOpsRelease == 5
MaxOpsLoad == 4
MaxOpsProtected == 3
MaxOpsUserValue == 4
MaxOpsCopy == 4
MaxOpsToString == 6
MaxOpsIndex == 4
MaxOpsStale == 8
MaxOpsStaleValue == 6
MaxOpsNoMem == 4
\* Go callbacks in progress at once.
MaxDepth == 1
\* Width of Go's int and of C's int (64 and 32 in the build), scaled so that
\* TLC's integers hold every intermediate sum.  CIntBits < IntBits as in the build.
IntBits == 29
CIntBits == 24

\* -------------------------------------------------------------- constants
LUA_MINSTACK == 20
LUAI_MAXSTACK == 1000000
EXTRA_STACK == 5
RegistryIndex == -1001000
RegistryIndexGlobals == 2
MultipleReturns == -1
goClosureUpvalueIndex == RegistryIndex - 1
handleMetatableName == "runtime/cgo.Handle"
callbackName == "zombiezen_lua_callback"
gchandleName == "zombiezen_lua_gchandle"
\* unsafe.Sizeof(cgo.Handle(0)), the block pushHandle allocates
HandleSize == 8

\* ------------------------------------------------------------- Go and C ints
MaxInt == 2^(IntBits - 1) - 1
MinInt == -(2^(IntBits - 1))

\* Go's int arithmetic wraps around.
WrapInt(x) == ((x - MinInt) % (2^IntBits)) + MinInt

\* The conversion C.int(x) keeps the low bits.
CInt(x) == ((x + 2^(CIntBits - 1)) % (2^CIntBits)) - 2^(CIntBits - 1)

max(a, b) == IF a > b THEN a ELSE b

\* F applied to the value x: names an intermediate result.
Let(x, F(_)) == F(x)

\* ------------------------------------------------------------------ values
Val(t, s, n) == [t |-> t, s |-> s, n |-> n]
NilV == Val("nil", "", 0)
BoolV(b) == Val("boolean", "", IF b THEN 1 ELSE 0)
IntV(n) == Val("number", "i", n)
NumV(n) == Val("number", "f", n)
StrV(s) == Val("string", s, 0)
LightV(p) == Val("lightuserdata", "", p)
TableV(id) == Val("table", "", id)
UdataV(id) == Val("userdata", "", id)
FuncV(id) == Val("function", "", id)

\* What a Go method returns: a boolean, an int and a string, as needed.
Ret(b, n, s) == [b |-> b, n |-> n, s |-> s]
NoRet == Ret(FALSE, 0, "")

\* --------------------------------------------------------------- heap objects
\* origin is bookkeeping for the properties: the handle pushHandle stored in a
\* block (the token itself is zeroed on release).
Obj(kind) ==
    [kind |-> kind, entries |-> <<>>, mt |-> 0, size |-> 0, token |-> 0,
     fin |-> FALSE, uv |-> <<>>, fn |-> "", upv |-> <<>>, origin |-> 0]

RegistryId == 1
GlobalsId == 2

\* The heap of a VM that luaL_newstate has just created.
NewHeap ==
    << [Obj("table") EXCEPT
            !.entries = << [k |-> IntV(RegistryIndexGlobals), v |-> TableV(GlobalsId)] >>],
       Obj("table") >>

ZeroState == [ptr |-> 0, top |-> 0, cap |-> 0]

\* ------------------------------------------------------------ the Lua VM
\* The C API of the vendored VM, as the reference manual and lapi.c give it
\* for a build without LUA_USE_APICHECK.  A call outside the API's contract
\* does what the unchecked C code does where that is a fixed outcome, and sets
\* m.ub where it reads or writes memory the VM does not own.

Base(m) == IF m.ci = <<>> THEN 0 ELSE m.ci[Len(m.ci)].func
CiTop(m) == IF m.ci = <<>> THEN 0 ELSE m.ci[Len(m.ci)].top

UB(m) == [m EXCEPT !.ub = TRUE]

\* A call on a NULL lua_State: the process dies.
Fatal(m) == [m EXCEPT !.ub = TRUE, !.fatal = TRUE]

lua_gettop(m) == Len(m.stack) - Base(m)

\* What a read of memory that holds no value of the caller's yields.
GarbageV(m) == IF m.g = 0 THEN NilV ELSE LightV(m.g)

\* lapi.c index2value: the value at idx, whether idx is no valid index
\* (none), and whether the read was outside the frame (wild).
Slot(v, none, wild) == [v |-> v, none |-> none, wild |-> wild]

CurFunc(m) == IF Base(m) > 0 THEN m.stack[Base(m)] ELSE NilV

index2value(m, idx) ==
    IF idx > 0 THEN
        IF Base(m) + idx > Len(m.stack)
        THEN Slot(NilV, TRUE, FALSE)
        ELSE Slot(m.stack[Base(m) + idx], FALSE, FALSE)
    ELSE IF idx > RegistryIndex THEN
        IF idx # 0 /\ -idx <= lua_gettop(m)
        THEN Slot(m.stack[Len(m.stack) + idx + 1], FALSE, FALSE)
        ELSE Slot(GarbageV(m), FALSE, TRUE)
    ELSE IF idx = RegistryIndex THEN Slot(TableV(RegistryId), FALSE, FALSE)
    ELSE LET k == RegistryIndex - idx
             f == CurFunc(m)
         IN IF f.t = "function" /\ f.n > 0 /\ k <= Len(m.heap[f.n].upv)
            THEN Slot(m.heap[f.n].upv[k], FALSE, FALSE)
            ELSE Slot(NilV, TRUE, FALSE)

\* Pushing past ci->top is outside the contract; the stack array has
\* EXTRA_STACK slots beyond it, and a push beyond those overruns the array.
vmPush(m, v) ==
    IF m.ci = <<>> THEN Fatal(m)
    ELSE LET s2 == Append(m.stack, v)
         IN [m EXCEPT !.stack = s2,
                      !.ub = m.ub \/ Len(s2) > CiTop(m) + EXTRA_STACK]

\* Removing n values from the top of the frame; below the frame's base the
\* VM would be reading the caller's slots.
vmPop(m, n) ==
    IF n > lua_gettop(m) \/ n < 0
    THEN [m EXCEPT !.stack = SubSeq(m.stack, 1, Base(m)), !.ub = TRUE]
    ELSE [m EXCEPT !.stack = SubSeq(m.stack, 1, Len(m.stack) - n)]

vmTopValue(m, k) ==
    \* the value k slots below the top (k = 0: the top)
    IF k < lua_gettop(m) THEN m.stack[Len(m.stack) - k] ELSE GarbageV(m)

Nils(n) == [i \in 1..n |-> NilV]

lua_settop(m, idx) ==
    IF m.ci = <<>> THEN Fatal(m)
    ELSE IF idx >= 0 THEN
        LET new == Base(m) + idx
        IN IF new <= Len(m.stack)
           THEN [m EXCEPT !.stack = SubSeq(m.stack, 1, new)]
           ELSE [m EXCEPT !.stack = m.stack \o Nils(new - Len(m.stack)),
                          !.ub = m.ub \/ new > CiTop(m) + EXTRA_STACK]
    ELSE IF -(idx + 1) <= lua_gettop(m)
         THEN [m EXCEPT !.stack = SubSeq(m.stack, 1, Len(m.stack) + idx + 1)]
         ELSE UB(m)

lua_pushvalue(m, idx) ==
    LET s == index2value(m, idx)
    IN vmPush([m EXCEPT !.ub = m.ub \/ s.wild], s.v)

lua_type(m, idx) ==
    LET s == index2value(m, idx) IN IF s.none THEN "none" ELSE s.v.t

\* lua_checkstack: 1 when the stack already has room for n more slots or can
\* be grown to have it, and then ci->top is raised to top + n.  n is a C int.
lua_checkstack_ok(m, n) == n < 0 \/ Len(m.stack) + 1 + n <= LUAI_MAXSTACK

lua_checkstack(m, n) ==
    IF m.ci = <<>> THEN Fatal(m)
    ELSE IF lua_checkstack_ok(m, n)
    THEN [m EXCEPT !.ci[Len(m.ci)].top = max(@, Len(m.stack) + n),
                   !.ret = Ret(TRUE, 1, "")]
    ELSE [m EXCEPT !.ret = Ret(FALSE, 0, "")]

\* lua_rotate: rotates the slots from idx to the top by n towards the top.
lua_rotate(m, idx, n) ==
    LET p == IF idx > 0 THEN Base(m) + idx ELSE Len(m.stack) + idx + 1
        k == Len(m.stack) - p + 1
        a == IF n < 0 THEN -n ELSE n
    IN IF p <= Base(m) \/ p > Len(m.stack) \/ a > k THEN UB(m)
       ELSE LET seg == SubSeq(m.stack, p, Len(m.stack))
                cut == IF n >= 0 THEN k - n ELSE -n
            IN [m EXCEPT !.stack = SubSeq(m.stack, 1, p - 1)
                                       \o SubSeq(seg, cut + 1, k) \o SubSeq(seg, 1, cut)]

\* lua_copy: writes the value at fromidx into the slot of toidx.  A toidx
\* that is no valid index makes the write land in the VM's shared nil value;
\* the registry's slot is the VM's own.
lua_copy(m, fromidx, toidx) ==
    LET fr == index2value(m, fromidx)
        to == index2value(m, toidx)
        m1 == [m EXCEPT !.ub = m.ub \/ fr.wild \/ to.wild \/ to.none]
        f == CurFunc(m)
    IN IF to.none \/ to.wild THEN m1
       ELSE IF toidx > 0 THEN [m1 EXCEPT !.stack[Base(m) + toidx] = fr.v]
       ELSE IF toidx > RegistryIndex THEN [m1 EXCEPT !.stack[Len(m.stack) + toidx + 1] = fr.v]
       ELSE IF toidx = RegistryIndex THEN UB(m1)
       ELSE [m1 EXCEPT !.heap[f.n].upv[RegistryIndex - toidx] = fr.v]

NoGmt == [t \in {"nil", "boolean", "lightuserdata", "number", "string", "function"} |-> 0]

\* luaL_newstate: a VM with an empty stack, LUA_MINSTACK slots reserved, the
\* registry and the globals table.
luaL_newstate(m) ==
    [m EXCEPT !.stack = <<>>,
              !.ci = << [func |-> 0, top |-> LUA_MINSTACK] >>,
              !.heap = NewHeap,
              !.gmt = NoGmt]

\* Raw table access.  Entries keep their insertion order, which is the order
\* lua_next walks them in.
TFind(t, k) == {i \in 1..Len(t.entries) : t.entries[i].k = k}

TGet(t, k) ==
    IF TFind(t, k) = {} THEN NilV ELSE t.entries[CHOOSE i \in TFind(t, k) : TRUE].v

TSet(t, k, v) ==
    LET I == TFind(t, k)
        keep == {i \in 1..Len(t.entries) : i \notin I}
        rest == [j \in 1..Cardinality(keep) |->
                    t.entries[CHOOSE i \in keep : Cardinality({x \in keep : x < i}) = j - 1]]
    IN IF v = NilV THEN [t EXCEPT !.entries = rest]
       ELSE IF I = {} THEN [t EXCEPT !.entries = Append(@, [k |-> k, v |-> v])]
       ELSE [t EXCEPT !.entries[CHOOSE i \in I : TRUE].v = v]

IsTable(m, v) == v.t = "table" /\ v.n \in 1..Len(m.heap)
IsFullUserdata(m, v) == v.t = "userdata" /\ v.n \in 1..Len(m.heap)

\* lua_rawget: replaces the key on the top by t[key]; t must be a table.
lua_rawget(m, idx) ==
    LET t == index2value(m, idx)
        k == vmTopValue(m, 0)
    IN IF lua_gettop(m) < 1 \/ ~IsTable(m, t.v) THEN UB(m)
       ELSE LET v == TGet(m.heap[t.v.n], k)
            IN [m EXCEPT !.stack[Len(m.stack)] = v, !.ret = Ret(TRUE, 0, v.t)]

lua_rawgeti(m, idx, n) ==
    LET t == index2value(m, idx)
    IN IF ~IsTable(m, t.v) THEN UB(vmPush(m, GarbageV(m)))
       ELSE LET v == TGet(m.heap[t.v.n], IntV(n))
            IN [vmPush(m, v) EXCEPT !.ret = Ret(TRUE, 0, v.t)]

\* lua_rawset: t[key] = value for the two topmost slots, which it pops.  A nil
\* key raises a Lua error, which no protected call of the binding catches.
lua_rawset(m, idx) ==
    LET t == index2value(m, idx)
        v == vmTopValue(m, 0)
        k == vmTopValue(m, 1)
    IN IF lua_gettop(m) < 2 \/ ~IsTable(m, t.v) \/ k = NilV THEN UB(vmPop(m, 2))
       ELSE vmPop([m EXCEPT !.heap[t.v.n] = TSet(@, k, v)], 2)

lua_rawseti(m, idx, n) ==
    LET t == index2value(m, idx)
        v == vmTopValue(m, 0)
    IN IF lua_gettop(m) < 1 \/ ~IsTable(m, t.v) THEN UB(vmPop(m, 1))
       ELSE vmPop([m EXCEPT !.heap[t.v.n] = TSet(@, IntV(n), v)], 1)

lua_createtable(m) ==
    vmPush([m EXCEPT !.heap = Append(@, Obj("table"))], TableV(Len(m.heap) + 1))

\* lua_newuserdatauv: a full userdata with a block of size bytes and nuvalue
\* user values, all nil.
lua_newuserdatauv(m, size, nuvalue) ==
    IF nuvalue < 0 THEN UB(m)
    ELSE vmPush([m EXCEPT !.heap = Append(@, [Obj("userdata") EXCEPT
                                                  !.size = size, !.uv = Nils(nuvalue)])],
                UdataV(Len(m.heap) + 1))

\* The metatable of a value: its own for a table or a full userdata, the
\* type's otherwise.  0 is no metatable.
MetatableOf(m, v) ==
    IF IsTable(m, v) \/ IsFullUserdata(m, v) THEN m.heap[v.n].mt
    ELSE IF v.t \in DOMAIN m.gmt THEN m.gmt[v.t]
    ELSE 0

lua_getmetatable(m, idx) ==
    LET o == index2value(m, idx)
        mt == MetatableOf(m, o.v)
    IN IF mt = 0 THEN [m EXCEPT !.ret = Ret(FALSE, 0, ""), !.ub = m.ub \/ o.wild]
       ELSE [vmPush(m, TableV(mt)) EXCEPT !.ret = Ret(TRUE, 0, ""), !.ub = @ \/ o.wild]

\* lua_setmetatable: pops a table or nil and makes it the metatable of the
\* value at objindex; an object whose new metatable has a __gc field is marked
\* for finalization (luaC_checkfinalizer).
lua_setmetatable(m, objindex) ==
    LET o == index2value(m, objindex)
        t == vmTopValue(m, 0)
        mt == IF t.t = "table" THEN t.n ELSE 0
        hasGc == mt # 0 /\ TGet(m.heap[mt], StrV("__gc")) # NilV
    IN IF lua_gettop(m) < 1 \/ (t # NilV /\ ~IsTable(m, t)) \/ o.wild \/ o.none
       THEN UB(vmPop(m, 1))
       ELSE IF IsTable(m, o.v) \/ IsFullUserdata(m, o.v)
       THEN vmPop([m EXCEPT !.heap[o.v.n].mt = mt,
                            !.heap[o.v.n].fin = @ \/ hasGc], 1)
       ELSE IF o.v.t \in DOMAIN m.gmt
       THEN vmPop([m EXCEPT !.gmt[o.v.t] = mt], 1)
       ELSE vmPop(m, 1)

\* lua_getiuservalue: pushes the n-th user value of a full userdata, or nil
\* (and LUA_TNONE) when it has none.
lua_getiuservalue(m, idx, n) ==
    LET o == index2value(m, idx)
    IN IF ~IsFullUserdata(m, o.v) THEN UB(vmPush(m, GarbageV(m)))
       ELSE IF n <= 0 \/ n > Len(m.heap[o.v.n].uv)
       THEN [vmPush(m, NilV) EXCEPT !.ret = Ret(FALSE, 0, "none")]
       ELSE [vmPush(m, m.heap[o.v.n].uv[n]) EXCEPT
                !.ret = Ret(TRUE, 0, m.heap[o.v.n].uv[n].t)]

\* lua_setiuservalue: pops a value into the n-th user value of a full
\* userdata; 0 when it has none.
lua_setiuservalue(m, idx, n) ==
    LET o == index2value(m, idx)
        v == vmTopValue(m, 0)
    IN IF lua_gettop(m) < 1 \/ ~IsFullUserdata(m, o.v) THEN UB(vmPop(m, 1))
       ELSE IF n < 1 \/ n > Len(m.heap[o.v.n].uv)
       THEN [vmPop(m, 1) EXCEPT !.ret = Ret(FALSE, 0, "")]
       ELSE [vmPop([m EXCEPT !.heap[o.v.n].uv[n] = v], 1) EXCEPT !.ret = Ret(TRUE, 0, "")]

\* lua_touserdata: the block of a full userdata (ret.s = "full", ret.n its
\* object), the pointer of a light userdata ("light"), NULL otherwise.
lua_touserdata(m, idx) ==
    LET o == index2value(m, idx)
    IN IF IsFullUserdata(m, o.v) THEN Ret(TRUE, o.v.n, "full")
       ELSE IF o.v.t = "lightuserdata" /\ o.v.n # 0 THEN Ret(TRUE, o.v.n, "light")
       ELSE Ret(FALSE, 0, "")

\* lua_rawequal: primitive equality; 0 when either index is not valid.
lua_rawequal(m, index1, index2) ==
    LET a == index2value(m, index1)
        b == index2value(m, index2)
    IN ~a.none /\ ~b.none /\
       IF a.v.t = "number" /\ b.v.t = "number" THEN a.v.n = b.v.n ELSE a.v = b.v

\* lua_next: pops a key and pushes the pair after it, or nothing at the end.
lua_next(m, idx) ==
    LET t == index2value(m, idx)
        k == vmTopValue(m, 0)
        e == IF IsTable(m, t.v) THEN m.heap[t.v.n].entries ELSE <<>>
        at == IF k = NilV THEN {0} ELSE {i \in 1..Len(e) : e[i].k = k}
        i == CHOOSE x \in at : TRUE
    IN IF lua_gettop(m) < 1 \/ ~IsTable(m, t.v) \/ at = {} THEN UB(vmPop(m, 1))
       ELSE IF i < Len(e)
       THEN [vmPush(vmPush(vmPop(m, 1), e[i + 1].k), e[i + 1].v) EXCEPT
                !.ret = Ret(TRUE, 0, "")]
       ELSE [vmPop(m, 1) EXCEPT !.ret = Ret(FALSE, 0, "")]

\* lua_pushcclosure: with n = 0 a light C function, otherwise a C closure
\* that takes the n topmost values as its upvalues.
lua_pushcclosure(m, fn, n) ==
    IF n = 0 THEN vmPush(m, Val("function", fn, 0))
    ELSE IF n < 0 \/ n > lua_gettop(m) THEN UB(m)
    ELSE LET ups == SubSeq(m.stack, Len(m.stack) - n + 1, Len(m.stack))
             m1 == vmPop(m, n)
         IN vmPush([m1 EXCEPT !.heap = Append(@, [Obj("function") EXCEPT
                                                     !.fn = fn, !.upv = ups])],
                   FuncV(Len(m.heap) + 1))

\* ------------------------------------------------------------- the ledger
Panic(m, msg) == [m EXCEPT !.panic = msg]
Return(m, r) == [m EXCEPT !.ret = r]

\* init.  When luaL_newstate returns NULL (m.nomem) the test that follows it
\* is `l == nil`, on the receiver, which is not nil: nothing panics and
\* lua_setwarnf is called on the NULL lua_State.
init(m) ==
    IF m.panic # "" THEN m
    ELSE IF m.l.ptr = 0
    THEN IF m.nomem THEN Fatal(m)
         ELSE [luaL_newstate(m) EXCEPT !.l.ptr = 1, !.l.cap = LUA_MINSTACK]
    ELSE m

isPseudo(i) == i <= RegistryIndex

AbsIndex(m, idx) ==
    IF m.panic # "" THEN m
    ELSE IF isPseudo(idx) THEN Return(m, Ret(TRUE, idx, ""))
    ELSE IF idx = 0 \/ idx < -m.l.top \/ idx > m.l.cap THEN Panic(m, "unacceptable index")
    ELSE IF idx < 0 THEN Return(m, Ret(TRUE, m.l.top + idx + 1, ""))
    ELSE Return(m, Ret(TRUE, idx, ""))

isValidIndex(st, idx) ==
    IF idx = goClosureUpvalueIndex THEN FALSE
    ELSE IF isPseudo(idx) THEN TRUE
    ELSE LET a == IF idx < 0 THEN -idx ELSE idx
         IN 1 <= a /\ a <= st.top

isAcceptableIndex(st, idx) ==
    isValidIndex(st, idx) \/ (st.top <= idx /\ idx <= st.cap)

checkElems(m, n) ==
    IF m.panic # "" THEN m
    ELSE IF m.l.top < n THEN Panic(m, "not enough elements in the stack")
    ELSE m

checkMessageHandler(m, msgHandler) ==
    IF m.panic # "" THEN m
    ELSE IF msgHandler = 0 THEN Return(m, Ret(TRUE, 0, ""))
    ELSE IF isPseudo(msgHandler) THEN Panic(m, "pseudo-indexed message handler")
    ELSE IF 1 <= msgHandler /\ msgHandler <= m.l.top
         THEN Return(m, Ret(TRUE, msgHandler, ""))
    ELSE IF -m.l.top <= msgHandler /\ msgHandler <= -1
         THEN Return(m, Ret(TRUE, m.l.top + msgHandler + 1, ""))
    ELSE Panic(m, "invalid message handler index")

SetTop(m, idx) ==
    IF m.panic # "" THEN m
    ELSE IF isPseudo(idx) THEN Panic(m, "pseudo-index invalid for top")
    ELSE IF idx = 0 THEN
        IF m.l.ptr # 0 THEN [lua_settop(m, 0) EXCEPT !.l.top = 0] ELSE m
    ELSE IF idx < 0 /\ WrapInt(idx + m.l.top + 1) < 0 THEN Panic(m, "stack underflow")
    ELSE IF idx > 0 /\ idx > m.l.cap THEN Panic(m, "stack overflow")
    ELSE LET n == IF idx < 0 THEN WrapInt(idx + m.l.top + 1) ELSE idx
             m1 == init(m)
         IN [lua_settop(m1, CInt(n)) EXCEPT !.l.top = n]

\* (Variant: the index of the new top is one too high.)
Pop_offByOne(m, n) == SetTop(m, WrapInt(-n))

Pop(m, n) == SetTop(m, WrapInt(-n - 1))

\* (Variant: the new slot is not counted.)
PushValue_uncounted(m, idx) ==
    LET m1 == init(m)
    IN IF m1.panic # "" THEN m1
       ELSE IF m1.l.top >= m1.l.cap THEN Panic(m1, "stack overflow")
       ELSE lua_pushvalue(m1, CInt(idx))

PushValue(m, idx) ==
    LET m1 == init(m)
    IN IF m1.panic # "" THEN m1
       ELSE IF m1.l.top >= m1.l.cap THEN Panic(m1, "stack overflow")
       ELSE [lua_pushvalue(m1, CInt(idx)) EXCEPT !.l.top = @ + 1]

Rotate(m, idx, n) ==
    LET m1 == init(m)
    IN IF m1.panic # "" THEN m1
       ELSE IF ~isValidIndex(m1.l, idx) \/ isPseudo(idx) THEN Panic(m1, "invalid index")
       ELSE LET m2 == AbsIndex(m1, idx)
                a == m2.ret.n
                absN == IF n < 0 THEN -n ELSE n
            IN IF m2.panic # "" THEN m2
               ELSE IF absN > m2.l.top - a + 1 THEN Panic(m2, "invalid rotation")
               ELSE lua_rotate(m2, CInt(a), CInt(n))

Remove(m, idx) == Pop(Rotate(m, idx, -1), 1)

Copy(m, fromIdx, toIdx) ==
    LET m1 == init(m)
    IN IF m1.panic # "" THEN m1
       ELSE IF ~isAcceptableIndex(m1.l, fromIdx) \/ ~isAcceptableIndex(m1.l, toIdx)
       THEN Panic(m1, "unacceptable index")
       ELSE lua_copy(m1, CInt(fromIdx), CInt(toIdx))

Replace(m, idx) == Pop(Copy(m, -1, idx), 1)

CheckStack(m, n) ==
    IF m.panic # "" THEN m
    ELSE IF WrapInt(m.l.top + n) <= m.l.cap THEN Return(m, Ret(TRUE, 0, ""))
    ELSE LET m1 == init(m)
             m2 == lua_checkstack(m1, CInt(n))
             ok == m2.ret.b
         IN IF ok
            THEN [m2 EXCEPT !.l.cap = max(m2.l.cap, WrapInt(m2.l.top + n)),
                            !.ret = Ret(TRUE, 0, "")]
            ELSE Return(m2, Ret(FALSE, 0, ""))

Type(m, idx) ==
    IF m.panic # "" THEN m
    ELSE IF m.l.ptr = 0 THEN Return(m, Ret(TRUE, 0, "none"))
    ELSE IF ~isAcceptableIndex(m.l, idx) THEN Panic(m, "unacceptable index")
    ELSE Return(m, Ret(TRUE, 0, lua_type(m, CInt(idx))))

\* PushNil, PushNumber, PushInteger, PushString, PushBoolean and
\* PushLightUserdata share one body: init, the capacity check, the foreign
\* push of the value and top++.
\* (Variant: the capacity test is off by one.)
pushOne_offByOne(m, v) ==
    LET m1 == init(m)
    IN IF m1.panic # "" THEN m1
       ELSE IF m1.l.top > m1.l.cap THEN Panic(m1, "stack overflow")
       ELSE [vmPush(m1, v) EXCEPT !.l.top = @ + 1]

pushOne(m, v) ==
    LET m1 == init(m)
    IN IF m1.panic # "" THEN m1
       ELSE IF m1.l.top >= m1.l.cap THEN Panic(m1, "stack overflow")
       ELSE [vmPush(m1, v) EXCEPT !.l.top = @ + 1]

PushNil(m) == pushOne(m, NilV)
PushNumber(m, n) == pushOne(m, NumV(n))
PushInteger(m, n) == pushOne(m, IntV(n))
PushString(m, s) == pushOne(m, StrV(s))
PushBoolean(m, b) == pushOne(m, BoolV(b))
PushLightUserdata(m, p) == pushOne(m, LightV(p))

RawEqual(m, idx1, idx2) ==
    IF m.panic # "" THEN m
    ELSE IF m.l.ptr = 0 THEN Return(m, Ret(FALSE, 0, ""))
    ELSE IF ~isAcceptableIndex(m.l, idx1) \/ ~isAcceptableIndex(m.l, idx2)
    THEN Panic(m, "unacceptable index")
    ELSE Return(m, Ret(lua_rawequal(m, CInt(idx1), CInt(idx2)), 0, ""))

RawGet(m, idx) ==
    LET m1 == checkElems(m, 1)
    IN IF m1.panic # "" THEN m1
       ELSE IF ~isAcceptableIndex(m1.l, idx) THEN Panic(m1, "unacceptable index")
       ELSE lua_rawget(m1, CInt(idx))

RawIndex(m, idx, n) ==
    LET m1 == init(m)
    IN IF m1.panic # "" THEN m1
       ELSE IF m1.l.top >= m1.l.cap THEN Panic(m1, "stack overflow")
       ELSE IF ~isAcceptableIndex(m1.l, idx) THEN Panic(m1, "unacceptable index")
       ELSE [lua_rawgeti(m1, CInt(idx), n) EXCEPT !.l.top = @ + 1]

RawField(m, idx, k) ==
    LET m1 == AbsIndex(m, idx)
    IN RawGet(PushString(m1, k), m1.ret.n)

CreateTable(m) ==
    LET m1 == init(m)
    IN IF m1.panic # "" THEN m1
       ELSE IF m1.l.top >= m1.l.cap THEN Panic(m1, "stack overflow")
       ELSE [lua_createtable(m1) EXCEPT !.l.top = @ + 1]

NewUserdataUV(m, nUValue) ==
    LET m1 == init(m)
    IN IF m1.panic # "" THEN m1
       ELSE IF m1.l.top >= m1.l.cap THEN Panic(m1, "stack overflow")
       ELSE [lua_newuserdatauv(m1, 0, CInt(nUValue)) EXCEPT !.l.top = @ + 1]

metatable(m, idx) ==
    IF m.panic # "" THEN m
    ELSE LET m1 == lua_getmetatable(m, CInt(idx))
         IN IF m1.ret.b THEN [m1 EXCEPT !.l.top = @ + 1] ELSE m1

Metatable(m, idx) ==
    LET m1 == init(m)
    IN IF m1.panic # "" THEN m1
       ELSE IF m1.l.top >= m1.l.cap THEN Panic(m1, "stack overflow")
       ELSE IF ~isAcceptableIndex(m1.l, idx) THEN Panic(m1, "unacceptable index")
       ELSE metatable(m1, idx)

UserValue(m, idx, n) ==
    LET m1 == init(m)
    IN IF m1.panic # "" THEN m1
       ELSE IF m1.l.top >= m1.l.cap THEN Panic(m1, "stack overflow")
       ELSE IF ~isAcceptableIndex(m1.l, idx) THEN Panic(m1, "unacceptable index")
       ELSE IF n < 1
       THEN [vmPush(m1, NilV) EXCEPT !.l.top = @ + 1, !.ret = Ret(FALSE, 0, "none")]
       ELSE [lua_getiuservalue(m1, CInt(idx), CInt(n)) EXCEPT !.l.top = @ + 1]

RawSet(m, idx) ==
    LET m1 == checkElems(m, 2)
    IN IF m1.panic # "" THEN m1
       ELSE IF ~isAcceptableIndex(m1.l, idx) THEN Panic(m1, "unacceptable index")
       ELSE [lua_rawset(m1, CInt(idx)) EXCEPT !.l.top = @ - 2]

RawSetIndex(m, idx, n) ==
    LET m1 == checkElems(m, 1)
    IN IF m1.panic # "" THEN m1
       ELSE IF ~isAcceptableIndex(m1.l, idx) THEN Panic(m1, "unacceptable index")
       ELSE [lua_rawseti(m1, CInt(idx), n) EXCEPT !.l.top = @ - 1]

RawSetField(m, idx, k) ==
    LET m1 == AbsIndex(m, idx)
    IN RawSet(Rotate(PushString(m1, k), -2, 1), m1.ret.n)

SetMetatable(m, objIndex) ==
    LET m1 == checkElems(m, 1)
    IN IF m1.panic # "" THEN m1
       ELSE IF ~isAcceptableIndex(m1.l, objIndex) THEN Panic(m1, "unacceptable index")
       ELSE [lua_setmetatable(m1, CInt(objIndex)) EXCEPT !.l.top = @ - 1]

SetUserValue(m, idx, n) ==
    LET m1 == init(m)
    IN IF m1.panic # "" THEN m1
       ELSE IF m1.l.top >= m1.l.cap THEN Panic(m1, "stack overflow")
       ELSE IF ~isAcceptableIndex(m1.l, idx) THEN Panic(m1, "unacceptable index")
       ELSE IF n < 1 THEN Return(Pop(m1, 1), Ret(FALSE, 0, ""))
       ELSE [lua_setiuservalue(m1, CInt(idx), CInt(n)) EXCEPT !.l.top = @ - 1]

State_Next(m, idx) ==
    LET m1 == checkElems(m, 1)
    IN IF m1.panic # "" THEN m1
       ELSE IF ~isAcceptableIndex(m1.l, idx) THEN Panic(m1, "unacceptable index")
       ELSE LET m2 == lua_next(m1, CInt(idx))
            IN IF m2.ret.b THEN [m2 EXCEPT !.l.top = @ + 1]
               ELSE [m2 EXCEPT !.l.top = @ - 1]

\* ------------------------------------------------ the auxiliary library
aux_Metatable(m, tname) == RawField(m, RegistryIndex, tname)

\* NewMetatable without the test for an entry already in use.
NewMetatable_alwaysCreates(m, tname) ==
    Let(aux_Metatable(m, tname), LAMBDA m1 :
        IF m1.panic # "" THEN m1
        ELSE Let(RawSetField(PushValue(RawSetField(PushString(CreateTable(Pop(m1, 1)), tname),
                                                   -2, "__name"),
                                       -1),
                             RegistryIndex, tname), LAMBDA m4 :
                 IF m4.panic # "" THEN m4 ELSE Return(m4, Ret(TRUE, 0, ""))))

NewMetatable(m, tname) ==
    Let(aux_Metatable(m, tname), LAMBDA m1 :
        IF m1.panic # "" THEN m1
        ELSE IF m1.ret.s # "nil" THEN Return(m1, Ret(FALSE, 0, ""))
        ELSE Let(RawSetField(PushValue(RawSetField(PushString(CreateTable(Pop(m1, 1)), tname),
                                                   -2, "__name"),
                                       -1),
                             RegistryIndex, tname), LAMBDA m4 :
                 IF m4.panic # "" THEN m4 ELSE Return(m4, Ret(TRUE, 0, ""))))

aux_SetMetatable(m, tname) == SetMetatable(aux_Metatable(m, tname), -2)

\* ------------------------------------------------------------ runtime/cgo
\* A Go value: a Function (fn) or any other value, told apart by v.
GoVal(fn, v) == [fn |-> fn, v |-> v]

HandleValid(m, h) == h \in 1..Len(m.handles) /\ m.handles[h].live

\* cgo.NewHandle: handles are numbered from 1 and never reused.  deletes
\* counts the calls of Delete on the handle, runs the runs of the finalizer on
\* the block the handle was stored in (bookkeeping for the properties).
NewHandle(m, v) ==
    IF m.panic # "" THEN m
    ELSE [m EXCEPT !.handles = Append(@, [val |-> v, live |-> TRUE, deletes |-> 0, runs |-> 0]),
                   !.ret = Ret(TRUE, Len(m.handles) + 1, "")]

\* Handle.Delete: panics on a handle that is not live.
Handle_Delete(m, h) ==
    IF m.panic # "" THEN m
    ELSE IF HandleValid(m, h)
    THEN [m EXCEPT !.handles[h].live = FALSE, !.handles[h].deletes = @ + 1]
    ELSE IF h \in 1..Len(m.handles)
    THEN [m EXCEPT !.handles[h].deletes = @ + 1,
                   !.panic = "runtime/cgo: misuse of an invalid Handle"]
    ELSE Panic(m, "runtime/cgo: misuse of an invalid Handle")

\* Handle.Value: panics on a handle that is not live.
Handle_Value(m, h) ==
    IF m.panic # "" THEN m
    ELSE IF HandleValid(m, h)
    THEN Return(m, Ret(TRUE, m.handles[h].val.v, IF m.handles[h].val.fn THEN "func" ELSE "value"))
    ELSE Panic(m, "runtime/cgo: misuse of an invalid Handle")

\* *handlePtr for the pointer p that lua_touserdata gave: the token of a block
\* that holds one, and whatever the memory holds for a block too small to
\* hold a handle or for a light userdata's address.
ReadToken(m, p) ==
    IF p.s = "full" /\ m.heap[p.n].size >= HandleSize
    THEN [v |-> m.heap[p.n].token, wild |-> FALSE]
    ELSE [v |-> m.g, wild |-> TRUE]

WriteToken(m, p, h) ==
    IF p.s = "full" /\ m.heap[p.n].size >= HandleSize
    THEN [m EXCEPT !.heap[p.n].token = h]
    ELSE UB(m)

\* ------------------------------------------------------------ the bridge
testHandle(m, idx) ==
    IF m.panic # "" THEN m
    ELSE Let(lua_touserdata(m, CInt(idx)), LAMBDA p :
         IF ~p.b THEN Return(m, Ret(FALSE, 0, ""))
         ELSE Let(metatable(m, idx), LAMBDA m1 :
              IF ~m1.ret.b THEN Return(m1, Ret(FALSE, 0, ""))
              ELSE Let(aux_Metatable(m1, handleMetatableName), LAMBDA m2 :
                   Let(IF m2.ret.s = "table" THEN RawEqual(m2, -1, -2) ELSE m2, LAMBDA m3 :
                   Let(Pop(m3, 2), LAMBDA m4 :
                       IF m4.panic # "" THEN m4
                       ELSE IF m2.ret.s = "table" /\ m3.ret.b THEN Return(m4, p)
                       ELSE Return(m4, Ret(FALSE, 0, "")))))))

ToGoValue(m, idx) ==
    IF m.panic # "" THEN m
    ELSE IF m.l.ptr = 0 THEN Return(m, NoRet)
    ELSE IF ~isAcceptableIndex(m.l, idx) THEN Panic(m, "unacceptable index")
    ELSE Let(testHandle(m, idx), LAMBDA m1 :
         IF m1.panic # "" THEN m1
         ELSE IF ~m1.ret.b THEN Return(m1, NoRet)
         ELSE Let(ReadToken(m1, m1.ret), LAMBDA tok :
              IF tok.v = 0 THEN [m1 EXCEPT !.ret = NoRet, !.ub = @ \/ tok.wild]
              ELSE Handle_Value([m1 EXCEPT !.ub = @ \/ tok.wild], tok.v)))

pushHandle(m, handle) ==
    Let(CheckStack(m, 3), LAMBDA m1 :
        IF m1.panic # "" THEN m1
        ELSE IF ~m1.ret.b THEN Panic(m1, "stack overflow")
        ELSE Let(lua_newuserdatauv(m1, HandleSize, 0), LAMBDA m2 :
             Let(NewMetatable([m2 EXCEPT !.heap[Len(m2.heap)].token = handle,
                                         !.heap[Len(m2.heap)].origin = handle,
                                         !.l.top = @ + 1],
                              handleMetatableName), LAMBDA m4 :
                 IF m4.panic # "" THEN m4
                 ELSE IF m4.ret.b
                 THEN SetMetatable(
                          RawSetField(
                              PushBoolean(
                                  RawSetField([lua_pushcclosure(m4, gchandleName, 0) EXCEPT
                                                  !.l.top = @ + 1],
                                              -2, "__gc"),
                                  FALSE),
                              -2, "__metatable"),
                          -2)
                 ELSE SetMetatable(m4, -2))))

\* PushGoValue without the wrapping of a non-nil value.
RECURSIVE PushNilTimes(_, _)
PushNilTimes(m, k) == IF k <= 0 THEN m ELSE PushNilTimes(PushNil(m), k - 1)

PushGoValue_dropsValue(m, isNil, v) ==
    IF m.panic # "" THEN m ELSE PushNil(m)

PushGoValue(m, isNil, v) ==
    IF m.panic # "" THEN m
    ELSE IF isNil THEN PushNil(m)
    ELSE Let(NewHandle(init(m), GoVal(FALSE, v)), LAMBDA m1 : pushHandle(m1, m1.ret.n))

PushClosure(m, n, f) ==
    IF m.panic # "" THEN m
    ELSE IF n < 0 \/ n > 254 THEN Panic(m, "invalid upvalue count")
    ELSE Let(NewHandle(checkElems(init(m), n), GoVal(TRUE, f)), LAMBDA m1 :
         Let(Rotate(pushHandle(m1, m1.ret.n), -(n + 1), 1), LAMBDA m2 :
             IF m2.panic # "" THEN m2
             ELSE [lua_pushcclosure(m2, callbackName, 1 + CInt(n)) EXCEPT !.l.top = @ - n]))

\* UpvalueIndex without the step over the upvalue that holds the handle.
UpvalueIndex_unshifted(m, i) ==
    IF m.panic # "" THEN m
    ELSE IF i < 1 \/ i > 255 THEN Panic(m, "invalid upvalue index")
    ELSE Return(m, Ret(TRUE, RegistryIndex - i, ""))

UpvalueIndex(m, i) ==
    IF m.panic # "" THEN m
    ELSE IF i < 1 \/ i > 255 THEN Panic(m, "invalid upvalue index")
    ELSE Return(m, Ret(TRUE, RegistryIndex - (i + 1), ""))

\* ------------------------------------------------------------ strings
\* lua_tolstring's rendering of a number: an integer in decimal, a float with
\* an integral value with ".0" appended.
NumStr(v) == IF v.s = "i" THEN ToString(v.n) ELSE ToString(v.n) \o ".0"

\* lua_tolstring: the string at idx; a number is first converted in place to
\* a string; NULL (ret.b false) for every other value.
lua_tolstring(m, idx) ==
    LET o == index2value(m, idx)
        sv == StrV(NumStr(o.v))
        f == CurFunc(m)
    IN IF o.v.t = "string" THEN [m EXCEPT !.ret = Ret(TRUE, 0, o.v.s)]
       ELSE IF o.v.t # "number" THEN [m EXCEPT !.ret = Ret(FALSE, 0, ""), !.ub = @ \/ o.wild]
       ELSE IF idx > 0
       THEN [m EXCEPT !.stack[Base(m) + idx] = sv, !.ret = Ret(TRUE, 0, sv.s)]
       ELSE IF idx > RegistryIndex
       THEN [m EXCEPT !.stack[Len(m.stack) + idx + 1] = sv, !.ret = Ret(TRUE, 0, sv.s)]
       ELSE [m EXCEPT !.heap[f.n].upv[RegistryIndex - idx] = sv, !.ret = Ret(TRUE, 0, sv.s)]

State_ToString(m, idx) ==
    IF m.panic # "" THEN m
    ELSE IF m.l.ptr = 0 THEN Return(m, Ret(FALSE, 0, ""))
    ELSE IF ~isAcceptableIndex(m.l, idx) THEN Panic(m, "unacceptable index")
    ELSE lua_tolstring(m, CInt(idx))

\* newError: the status and the message, read with ToString(-1).
newError(m, code) ==
    LET m1 == State_ToString(m, -1)
    IN IF m1.panic # "" THEN m1
       ELSE Return(m1, Ret(FALSE, 0, IF m1.ret.s # "" THEN m1.ret.s ELSE code))

\* ------------------------------------------------------------ functions

IsFunctionObj(m, v) == v.t = "function" /\ v.n \in 1..Len(m.heap)
IsGoClosure(m, v) == IsFunctionObj(m, v) /\ m.heap[v.n].fn = callbackName
IsLuaFunction(m, v) == IsFunctionObj(m, v) /\ m.heap[v.n].fn # callbackName
IsGcHandleFn(v) == v.t = "function" /\ v.n = 0 /\ v.s = gchandleName

\* The chunks loaded in the model, and what running each one does.
ChunkOK(src) ==
    src \in {"return 1, 2", "return", "return 'desc'", "error('boom')", "error(42)"}

ChunkRun(src) ==
    CASE src = "return 1, 2" -> [ok |-> TRUE, vals |-> <<IntV(1), IntV(2)>>]
      [] src = "return 'desc'" -> [ok |-> TRUE, vals |-> <<StrV("desc")>>]
      [] src = "error('boom')" -> [ok |-> FALSE, vals |-> <<StrV("boom")>>]
      [] src = "error(42)" -> [ok |-> FALSE, vals |-> <<IntV(42)>>]
      [] OTHER -> [ok |-> TRUE, vals |-> <<>>]

\* stateForCallback with one slot less than the VM gives a C function.
stateForCallback_oneShort(m) ==
    [ptr |-> 1, top |-> lua_gettop(m), cap |-> lua_gettop(m) + LUA_MINSTACK - 1]

stateForCallback(m) ==
    [ptr |-> 1, top |-> lua_gettop(m), cap |-> lua_gettop(m) + LUA_MINSTACK]

\* zombiezen_lua_gchandle, running in the frame the VM made for it.  A Go
\* panic here unwinds through the VM's C frames.
\* The finalizer without the zeroing of the block after Delete.
zombiezen_lua_gchandle_keepsToken(m) ==
    Let(testHandle([m EXCEPT !.l = stateForCallback(m)], 1), LAMBDA m1 :
        IF m1.panic # "" THEN UB(m1)
        ELSE IF ~m1.ret.b THEN m1
        ELSE Let(m1.ret, LAMBDA p :
             Let(ReadToken(m1, p), LAMBDA tok :
             Let(IF p.s = "full" THEN m1.heap[p.n].origin ELSE 0, LAMBDA o :
             Let([m1 EXCEPT !.ub = @ \/ tok.wild,
                            !.handles = IF o \in 1..Len(m1.handles)
                                        THEN [@ EXCEPT ![o].runs = @ + 1] ELSE @], LAMBDA m3 :
                 IF tok.v = 0 THEN m3
                 ELSE Let(Handle_Delete(m3, tok.v), LAMBDA m4 :
                          IF m4.panic # "" THEN UB(m4) ELSE m4))))))

zombiezen_lua_gchandle(m) ==
    Let(testHandle([m EXCEPT !.l = stateForCallback(m)], 1), LAMBDA m1 :
        IF m1.panic # "" THEN UB(m1)
        ELSE IF ~m1.ret.b THEN m1
        ELSE Let(m1.ret, LAMBDA p :
             Let(ReadToken(m1, p), LAMBDA tok :
             Let(IF p.s = "full" THEN m1.heap[p.n].origin ELSE 0, LAMBDA o :
             Let([m1 EXCEPT !.ub = @ \/ tok.wild,
                            !.handles = IF o \in 1..Len(m1.handles)
                                        THEN [@ EXCEPT ![o].runs = @ + 1] ELSE @], LAMBDA m3 :
                 IF tok.v = 0 THEN m3
                 ELSE Let(Handle_Delete(m3, tok.v), LAMBDA m4 :
                          IF m4.panic # "" THEN UB(m4) ELSE WriteToken(m4, p, 0)))))))

\* The VM calling f with args above the current top (luaD_call), for an f
\* that is the finalizer; its results are dropped and the caller's stack,
\* frame and State are as before.
callGcHandle(m, f, args) ==
    Let(zombiezen_lua_gchandle(
            [m EXCEPT !.stack = @ \o <<f>> \o args,
                      !.ci = Append(@, [func |-> Len(m.stack) + 1,
                                        top |-> Len(m.stack) + 1 + Len(args) + LUA_MINSTACK])]),
        LAMBDA m2 : [m2 EXCEPT !.stack = m.stack, !.ci = m.ci, !.l = m.l])

\* ------------------------------------------------------------ calls
\* luaD_poscall's adjustment of the results to the number wanted.
Adjust(rs, wanted) ==
    IF wanted < 0 THEN rs
    ELSE [i \in 1..wanted |-> IF i <= Len(rs) THEN rs[i] ELSE NilV]

\* A protected call that ends without error: the results replace the
\* function and its arguments; with LUA_MULTRET the frame's top is raised to
\* hold them.  m is the machine after the callee's frame is gone.
vmFinishOK(m, funcpos, rs, nresults) ==
    LET s2 == SubSeq(m.stack, 1, funcpos - 1) \o Adjust(rs, nresults)
    IN [m EXCEPT !.stack = s2,
                 !.ci[Len(m.ci)].top = IF nresults < 0 THEN max(@, Len(s2)) ELSE @,
                 !.ub = @ \/ nresults < -1 \/ Len(s2) > CiTop(m) + EXTRA_STACK,
                 !.ret = Ret(TRUE, 0, "OK")]

\* A protected call that ends with the error object e: the message handler,
\* if any, maps it (luaG_errormsg), and the outcome replaces the function and
\* its arguments.  A handler that cannot be called, or that fails itself,
\* ends in LUA_ERRERR.  (Go closures as handlers are outside the model's
\* inputs.)
vmFinishErr(m, funcpos, e, msgh) ==
    Let(IF msgh >= 1 /\ Base(m) + msgh <= Len(m.stack)
        THEN m.stack[Base(m) + msgh] ELSE NilV, LAMBDA h :
    Let(IF IsLuaFunction(m, h) THEN ChunkRun(m.heap[h.n].fn)
        ELSE [ok |-> FALSE, vals |-> <<>>], LAMBDA ran :
    Let(IF msgh = 0 THEN [e |-> e, st |-> "ERRRUN"]
        ELSE IF IsGcHandleFn(h) THEN [e |-> NilV, st |-> "ERRRUN"]
        ELSE IF IsLuaFunction(m, h) /\ ran.ok
        THEN [e |-> IF ran.vals = <<>> THEN NilV ELSE ran.vals[1], st |-> "ERRRUN"]
        ELSE [e |-> StrV("error in error handling"), st |-> "ERRERR"], LAMBDA out :
        [(IF msgh # 0 /\ IsGcHandleFn(h) THEN callGcHandle(m, h, <<e>>) ELSE m) EXCEPT
            !.stack = SubSeq(m.stack, 1, funcpos - 1) \o <<out.e>>,
            !.ret = Ret(FALSE, 0, out.st)])))

\* lua_pcallk for a callee that runs to its end inside the VM: a loaded
\* chunk, the finalizer, or a value that cannot be called.  The function is
\* nargs + 1 slots below the top; a negative nargs makes that the slot above
\* the top, which holds no value of the caller's.
lua_pcallk(m, nargs, nresults, msgh) ==
    IF m.ci = <<>> THEN Fatal(m)
    ELSE Let(Len(m.stack) - nargs, LAMBDA funcpos :
         Let(funcpos > Base(m) /\ funcpos <= Len(m.stack), LAMBDA inFrame :
         Let(IF inFrame THEN m.stack[funcpos] ELSE GarbageV(m), LAMBDA f :
         Let([m EXCEPT !.ub = @ \/ ~inFrame], LAMBDA m0 :
             IF funcpos <= Base(m) \/ funcpos > Len(m.stack) + 1
             THEN [m0 EXCEPT !.ret = Ret(FALSE, 0, "ERRRUN")]
             ELSE IF IsGcHandleFn(f)
             THEN vmFinishOK(callGcHandle([m0 EXCEPT !.stack = SubSeq(m.stack, 1, funcpos - 1)],
                                          f, SubSeq(m.stack, funcpos + 1, Len(m.stack))),
                             funcpos, <<>>, nresults)
             ELSE IF IsLuaFunction(m, f)
             THEN Let(ChunkRun(m.heap[f.n].fn), LAMBDA ran :
                      IF ran.ok THEN vmFinishOK(m0, funcpos, ran.vals, nresults)
                      ELSE vmFinishErr(m0, funcpos, ran.vals[1], msgh))
             ELSE vmFinishErr(m0, funcpos,
                              StrV("attempt to call a " \o f.t \o " value"), msgh)))))

\* Call up to the foreign call: the panics, toPop, newTop and the absolute
\* message handler index (ret.n).
CallChecks(m, nArgs, nResults, msgHandler) ==
    IF m.panic # "" THEN m
    ELSE IF nArgs < 0 THEN Panic(m, "negative arguments")
    ELSE LET toPop == WrapInt(1 + nArgs)
             m1 == checkElems(m, toPop)
             newTop == IF nResults # MultipleReturns
                       THEN WrapInt(m.l.top - toPop + nResults) ELSE -1
         IN IF m1.panic # "" THEN m1
            ELSE IF nResults # MultipleReturns /\ nResults < 0
            THEN Panic(m1, "negative results")
            ELSE IF nResults # MultipleReturns /\ newTop > m1.l.cap
            THEN Panic(m1, "stack overflow")
            ELSE checkMessageHandler(m1, msgHandler)

CallToPop(nArgs) == WrapInt(1 + nArgs)
CallNewTop(st, nArgs, nResults) ==
    IF nResults # MultipleReturns THEN WrapInt(st.top - CallToPop(nArgs) + nResults) ELSE -1

\* Call after the foreign call returned with the status in m.ret.s.
CallReturn(m, toPop, newTop) ==
    IF m.panic # "" THEN m
    ELSE IF m.ret.s # "OK"
    THEN Let(newError([m EXCEPT !.l.top = WrapInt(@ - WrapInt(toPop - 1))], m.ret.s),
             LAMBDA m1 : IF m1.panic # "" THEN m1
                         ELSE Return(m1, Ret(FALSE, 0, "lua: call: " \o m1.ret.s)))
    ELSE IF newTop >= 0 THEN [m EXCEPT !.l.top = newTop, !.ret = Ret(TRUE, 0, "")]
    ELSE [m EXCEPT !.l.top = lua_gettop(m),
                   !.l.cap = max(m.l.cap, lua_gettop(m)),
                   !.ret = Ret(TRUE, 0, "")]

\* Call of anything but a Go closure.
Call(m, nArgs, nResults, msgHandler) ==
    Let(CallChecks(m, nArgs, nResults, msgHandler), LAMBDA m1 :
        IF m1.panic # "" THEN m1
        ELSE CallReturn(lua_pcallk(m1, CInt(nArgs), CInt(nResults), CInt(m1.ret.n)),
                        CallToPop(nArgs), CallNewTop(m.l, nArgs, nResults)))

\* ------------------------------------------------------------ protected table access

lua_absindex(m, idx) ==
    IF idx > 0 \/ idx <= RegistryIndex THEN idx ELSE lua_gettop(m) + idx + 1

\* What lua_pcall can use as a message handler: 0, or a slot of the frame.
\* Anything else is read only when the call fails.
msghInFrame(m, msgh) == msgh = 0 \/ (msgh >= 1 /\ msgh <= lua_gettop(m))

\* lua_gettable without metamethods (no value given to the model carries
\* __index): a table yields the raw entry, any other value raises.
lua_gettable(m, t, k) ==
    IF IsTable(m, t) THEN [ok |-> TRUE, v |-> TGet(m.heap[t.n], k)]
    ELSE [ok |-> FALSE, v |-> StrV("attempt to index a " \o t.t \o " value")]

\* lua_settable without metamethods (no value given to the model carries
\* __newindex).
lua_settable(m, t, k) ==
    IF ~IsTable(m, t) THEN [ok |-> FALSE, v |-> StrV("attempt to index a " \o t.t \o " value")]
    ELSE IF k = NilV THEN [ok |-> FALSE, v |-> StrV("index is nil")]
    ELSE [ok |-> TRUE, v |-> NilV]

\* The frame gettable and settable build under lua_pcall: the C function and
\* the table pushed and rotated beneath the operands on top.
pcallFrame(m, fn, t, operands, handlerOK) ==
    [m EXCEPT !.ub = @ \/ lua_gettop(m) < Len(operands) \/ t.wild \/ ~handlerOK
                     \/ Len(m.stack) + 2 > CiTop(m) + EXTRA_STACK,
              !.stack = SubSeq(@, 1, Len(@) - Len(operands))
                        \o <<Val("function", fn, 0), t.v>> \o operands]

\* The C helper gettable: the key on top becomes the argument frame
\* <<gettablecb, table, key>>, and lua_pcall leaves one value in its place.
gettable(m, index, msgh) ==
    IF m.ci = <<>> THEN Fatal(m)
    ELSE Let([t |-> index2value(m, lua_absindex(m, index)),
              h |-> IF msgh # 0 THEN lua_absindex(m, msgh) ELSE 0,
              k |-> vmTopValue(m, 0)], LAMBDA a :
             IF lua_gettable(m, a.t.v, a.k).ok
             THEN vmFinishOK(pcallFrame(m, "gettablecb", a.t, <<a.k>>, TRUE),
                             Len(m.stack), <<lua_gettable(m, a.t.v, a.k).v>>, 1)
             ELSE vmFinishErr(pcallFrame(m, "gettablecb", a.t, <<a.k>>,
                                         msghInFrame(m, a.h)),
                              Len(m.stack), lua_gettable(m, a.t.v, a.k).v, a.h))

\* The C helper settable: key and value on top become the argument frame
\* <<settablecb, table, key, value>>, and lua_pcall removes it (leaving the
\* error object when the assignment raised).
settable(m, index, msgh) ==
    IF m.ci = <<>> THEN Fatal(m)
    ELSE Let([t |-> index2value(m, lua_absindex(m, index)),
              h |-> IF msgh # 0 THEN lua_absindex(m, msgh) ELSE 0,
              k |-> vmTopValue(m, 1),
              v |-> vmTopValue(m, 0)], LAMBDA a :
             IF lua_settable(m, a.t.v, a.k).ok
             THEN vmFinishOK([pcallFrame(m, "settablecb", a.t, <<a.k, a.v>>, TRUE)
                                 EXCEPT !.heap[a.t.v.n] = TSet(@, a.k, a.v)],
                             Len(m.stack) - 1, <<>>, 0)
             ELSE vmFinishErr(pcallFrame(m, "settablecb", a.t, <<a.k, a.v>>,
                                         msghInFrame(m, a.h)),
                              Len(m.stack) - 1, lua_settable(m, a.t.v, a.k).v, a.h))

\* The tail shared by Table and Field: the type of the value pushed, or the
\* wrapped error.
getReturn(m, what) ==
    IF m.panic # "" THEN m
    ELSE IF m.ret.s # "OK"
    THEN Let(newError(m, m.ret.s), LAMBDA m1 :
             IF m1.panic # "" THEN m1 ELSE Return(m1, Ret(FALSE, 0, what \o m1.ret.s)))
    ELSE Return(m, Ret(TRUE, 0, lua_type(m, -1)))

\* The tail shared by SetTable and SetField.
setReturn(m, what) ==
    IF m.panic # "" THEN m
    ELSE IF m.ret.s # "OK"
    THEN Let(newError([m EXCEPT !.l.top = @ - 1], m.ret.s), LAMBDA m1 :
             IF m1.panic # "" THEN m1 ELSE Return(m1, Ret(FALSE, 0, what \o m1.ret.s)))
    ELSE [m EXCEPT !.l.top = @ - 2, !.ret = Ret(TRUE, 0, "")]

Table(m, idx, msgHandler) ==
    IF checkElems(m, 1).panic # "" THEN checkElems(m, 1)
    ELSE Let(CheckStack(m, 2), LAMBDA m2 :
        IF ~m2.ret.b THEN Panic(m2, "stack overflow")
        ELSE IF ~isAcceptableIndex(m2.l, idx) THEN Panic(m2, "unacceptable index")
        ELSE IF checkMessageHandler(m2, msgHandler).panic # ""
        THEN checkMessageHandler(m2, msgHandler)
        ELSE Let(gettable(m2, CInt(idx), CInt(checkMessageHandler(m2, msgHandler).ret.n)),
                 LAMBDA m4 : getReturn(m4, "lua: table lookup: ")))

Field(m, idx, k, msgHandler) ==
    Let(CheckStack(init(m), 3), LAMBDA m1 :
        IF m1.panic # "" THEN m1
        ELSE IF ~m1.ret.b THEN Panic(m1, "stack overflow")
        ELSE IF AbsIndex(m1, idx).panic # "" THEN AbsIndex(m1, idx)
        ELSE IF checkMessageHandler(m1, msgHandler).panic # ""
        THEN checkMessageHandler(m1, msgHandler)
        ELSE Let(PushString(m1, k), LAMBDA m4 :
                 IF m4.panic # "" THEN m4
                 ELSE Let(gettable(m4, CInt(AbsIndex(m1, idx).ret.n),
                                   CInt(checkMessageHandler(m1, msgHandler).ret.n)),
                          LAMBDA m5 : getReturn(m5, "lua: get field \"" \o k \o "\": "))))

Global(m, name, msgHandler) ==
    IF checkMessageHandler(init(m), msgHandler).panic # ""
    THEN checkMessageHandler(init(m), msgHandler)
    ELSE Let(RawIndex(init(m), RegistryIndex, RegistryIndexGlobals), LAMBDA m2 :
         Let(Field(m2, -1, name, checkMessageHandler(init(m), msgHandler).ret.n),
             LAMBDA m3 :
         Let(Remove(m3, -2), LAMBDA m4 :
             IF m4.panic # "" THEN m4 ELSE Return(m4, m3.ret))))

SetTable(m, idx, msgHandler) ==
    IF checkElems(m, 2).panic # "" THEN checkElems(m, 2)
    ELSE Let(CheckStack(m, 2), LAMBDA m2 :
        IF ~m2.ret.b THEN Panic(m2, "stack overflow")
        ELSE IF ~isAcceptableIndex(m2.l, idx)
                \/ (msgHandler # 0 /\ ~isAcceptableIndex(m2.l, msgHandler))
        THEN Panic(m2, "unacceptable index")
        ELSE Let(settable(m2, CInt(idx), CInt(msgHandler)),
                 LAMBDA m3 : setReturn(m3, "lua: set table field: ")))

\* msgHandler as SetField and SetGlobal resolve it: 0, or AbsIndex of it.
handlerAbsIndex(m, msgHandler) ==
    IF msgHandler # 0 THEN AbsIndex(m, msgHandler) ELSE Return(m, Ret(TRUE, 0, ""))

SetField(m, idx, k, msgHandler) ==
    IF checkElems(m, 1).panic # "" THEN checkElems(m, 1)
    ELSE Let(CheckStack(m, 3), LAMBDA m1 :
        IF ~m1.ret.b THEN Panic(m1, "stack overflow")
        ELSE IF AbsIndex(m1, idx).panic # "" THEN AbsIndex(m1, idx)
        ELSE IF handlerAbsIndex(m1, msgHandler).panic # ""
        THEN handlerAbsIndex(m1, msgHandler)
        ELSE Let(Rotate(PushString(m1, k), -2, 1), LAMBDA m4 :
                 IF m4.panic # "" THEN m4
                 ELSE Let(settable(m4, CInt(AbsIndex(m1, idx).ret.n),
                                   CInt(handlerAbsIndex(m1, msgHandler).ret.n)),
                          LAMBDA m5 : setReturn(m5, "lua: set field \"" \o k \o "\": "))))

SetGlobal(m, name, msgHandler) ==
    IF checkElems(m, 1).panic # "" THEN checkElems(m, 1)
    ELSE IF handlerAbsIndex(m, msgHandler).panic # "" THEN handlerAbsIndex(m, msgHandler)
    ELSE Let(Rotate(RawIndex(m, RegistryIndex, RegistryIndexGlobals), -2, 1), LAMBDA m2 :
         Let(SetField(m2, -2, name, handlerAbsIndex(m, msgHandler).ret.n), LAMBDA m3 :
         Let(Pop(m3, 1), LAMBDA m4 :
             IF m4.panic # "" THEN m4 ELSE Return(m4, m3.ret))))

\* ------------------------------------------------------------ ToString (package level)
IsString(m, idx) ==
    IF m.panic # "" THEN m
    ELSE IF m.l.ptr = 0 THEN Return(m, Ret(FALSE, 0, ""))
    ELSE IF ~isAcceptableIndex(m.l, idx) THEN Panic(m, "unacceptable index")
    ELSE Return(m, Ret(lua_type(m, CInt(idx)) \in {"string", "number"}, 0, ""))

\* lua_topointer: the address of a collectable object (its id in the model) or
\* the pointer a light userdata holds, 0 for every other value.
lua_topointer(m, idx) ==
    IF index2value(m, idx).v.t \in {"table", "userdata", "function", "lightuserdata"}
    THEN index2value(m, idx).v.n ELSE 0

ToPointer(m, idx) ==
    IF m.panic # "" THEN m
    ELSE IF m.l.ptr = 0 THEN Return(m, Ret(TRUE, 0, ""))
    ELSE IF ~isAcceptableIndex(m.l, idx) THEN Panic(m, "unacceptable index")
    ELSE Return(m, Ret(TRUE, lua_topointer(m, CInt(idx)), ""))

\* Type.String: the name of a type.
TypeString(t) ==
    IF t = "none" THEN "no value"
    ELSE IF t = "lightuserdata" THEN "userdata" ELSE t

\* Metafield: ret.s is the type of the field pushed, "nil" when nothing was
\* pushed.
Metafield(m, obj, event) ==
    Let(Metatable(m, obj), LAMBDA m1 :
        IF m1.panic # "" THEN m1
        ELSE IF ~m1.ret.b THEN Return(m1, Ret(TRUE, 0, "nil"))
        ELSE Let(RawGet(PushString(m1, event), -2), LAMBDA m2 :
                 IF m2.panic # "" THEN m2
                 ELSE IF m2.ret.s = "nil" THEN Return(Pop(m2, 2), m2.ret)
                 ELSE Return(Remove(m2, -2), m2.ret)))

\* The messages a call can fail with in the model.
CallMessages ==
    {"42", "boom", "error in error handling"}
    \cup {"attempt to call a " \o t \o " value" :
             t \in {"nil", "boolean", "number", "string", "table", "userdata",
                    "lightuserdata"}}

\* unwrapError on the error of Call: the luaError inside, whose text is the
\* message alone.
unwrapError(s) ==
    IF \E msg \in CallMessages : s = "lua: call: " \o msg
    THEN CHOOSE msg \in CallMessages : s = "lua: call: " \o msg
    ELSE s

\* CallMeta: ret.b is the boolean returned, ret.s the error's text ("" for
\* nil).
CallMeta(m, obj, event) ==
    IF AbsIndex(m, obj).panic # "" THEN AbsIndex(m, obj)
    ELSE Let(Metafield(m, AbsIndex(m, obj).ret.n, event), LAMBDA m1 :
        IF m1.panic # "" THEN m1
        ELSE IF m1.ret.s = "nil" THEN Return(m1, Ret(FALSE, 0, ""))
        ELSE Let(Call(PushValue(m1, AbsIndex(m, obj).ret.n), 1, 1, 0), LAMBDA m2 :
                 IF m2.panic # "" THEN m2
                 ELSE IF ~m2.ret.b
                 THEN Return(Pop(m2, 1),
                             Ret(TRUE, 0, "lua: call metafield \"" \o event \o "\": "
                                              \o unwrapError(m2.ret.s)))
                 ELSE Return(m2, Ret(TRUE, 0, ""))))

\* The branch of ToString for a value without __tostring: ret.s is the text.
formatByType(m, idx) ==
    Let(index2value(m, CInt(idx)).v, LAMBDA v :
        IF Type(m, idx).panic # "" THEN Type(m, idx)
        ELSE IF Type(m, idx).ret.s = "number"
        THEN Return(m, Ret(TRUE, 0, ToString(v.n)))
        ELSE IF Type(m, idx).ret.s = "string" THEN Return(m, Ret(TRUE, 0, v.s))
        ELSE IF Type(m, idx).ret.s = "boolean"
        THEN Return(m, Ret(TRUE, 0, IF v.n # 0 THEN "true" ELSE "false"))
        ELSE IF Type(m, idx).ret.s = "nil" THEN Return(m, Ret(TRUE, 0, "nil"))
        ELSE Let(Metafield(m, idx, "__name"), LAMBDA m1 :
                 IF m1.panic # "" THEN m1
                 ELSE IF m1.ret.s = "string"
                 THEN Return(Pop(m1, 1),
                             Ret(TRUE, 0, vmTopValue(m1, 0).s \o ": 0x"
                                              \o ToString(ToPointer(m, idx).ret.n)))
                 ELSE Return(IF m1.ret.s # "nil" THEN Pop(m1, 1) ELSE m1,
                             Ret(TRUE, 0, TypeString(Type(m, idx).ret.s) \o ": 0x"
                                              \o ToString(ToPointer(m, idx).ret.n)))))

\* ToString: ret.b is "no error", ret.s the string or the error's text.
aux_ToString(m, idx) ==
    IF AbsIndex(m, idx).panic # "" THEN AbsIndex(m, idx)
    ELSE Let(CallMeta(m, AbsIndex(m, idx).ret.n, "__tostring"), LAMBDA m1 :
        IF m1.panic # "" THEN m1
        ELSE IF m1.ret.s # "" THEN Return(m1, Ret(FALSE, 0, m1.ret.s))
        ELSE IF ~m1.ret.b THEN formatByType(m1, AbsIndex(m, idx).ret.n)
        ELSE IF IsString(m1, -1).panic # "" THEN IsString(m1, -1)
        ELSE IF ~IsString(m1, -1).ret.b
        THEN Return(Pop(m1, 1), Ret(FALSE, 0, "lua: '__tostring' must return a string"))
        ELSE Let(State_ToString(m1, AbsIndex(m, idx).ret.n), LAMBDA m2 :
                 Return(Pop(m2, 1), Ret(TRUE, 0, m2.ret.s))))

\* ------------------------------------------------------------ Go closures
\* The VM entering a C function (luaD_precall): a frame whose base is the
\* function's slot, with LUA_MINSTACK slots above the arguments.
vmEnter(m, funcpos) ==
    [m EXCEPT !.ci = Append(@, [func |-> funcpos, top |-> Len(m.stack) + LUA_MINSTACK])]

vmLeave(m) == [m EXCEPT !.ci = SubSeq(@, 1, Len(@) - 1)]

\* zombiezen_lua_gocb without the test for a zeroed token.
gocb_enter_derefsZero(m) ==
    Let(testHandle([m EXCEPT !.l = stateForCallback(m)], goClosureUpvalueIndex), LAMBDA m1 :
        IF m1.panic # "" THEN UB(m1)
        ELSE IF ~m1.ret.b THEN Return(m1, Ret(FALSE, 0, ""))
        ELSE Let(ReadToken(m1, m1.ret), LAMBDA tok :
             Let(Handle_Value([m1 EXCEPT !.ub = @ \/ tok.wild], tok.v), LAMBDA m3 :
                 IF m3.panic # "" THEN UB(m3)
                 ELSE Return(m3, Ret(m3.ret.s = "func", m3.ret.n, "")))))

\* zombiezen_lua_gocb up to the call of the Go function: ret.b tells whether
\* upvalue 1 yielded a Function; m.l is the callback's State.
gocb_enter(m) ==
    Let(testHandle([m EXCEPT !.l = stateForCallback(m)], goClosureUpvalueIndex), LAMBDA m1 :
        IF m1.panic # "" THEN UB(m1)
        ELSE IF ~m1.ret.b THEN Return(m1, Ret(FALSE, 0, ""))
        ELSE Let(ReadToken(m1, m1.ret), LAMBDA tok :
             IF tok.v = 0 THEN Return([m1 EXCEPT !.ub = @ \/ tok.wild], Ret(FALSE, 0, ""))
             ELSE Let(Handle_Value([m1 EXCEPT !.ub = @ \/ tok.wild], tok.v), LAMBDA m3 :
                      IF m3.panic # "" THEN UB(m3)
                      ELSE Return(m3, Ret(m3.ret.s = "func", m3.ret.n, "")))))

\* Function.pcall with a recover that drops the panic.
pcall_dropsPanic(out) ==
    IF out.panic.k = "none" THEN [nResults |-> out.results, err |-> out.err]
    ELSE [nResults |-> 0, err |-> ""]

\* Function.pcall: the function's results, with a panic recovered into an
\* error of no results: an error value as it is, a string as errors.New of
\* it, any other value formatted with %v.
pcall(out) ==
    IF out.panic.k = "none" THEN [nResults |-> out.results, err |-> out.err]
    ELSE [nResults |-> 0,
          err |-> CASE out.panic.k = "error" -> out.panic.s
                    [] out.panic.k = "string" -> out.panic.s
                    [] OTHER -> ToString(out.panic.n)]

\* zombiezen_lua_gocb taking a negative count for no results.
gocb_exit_negativeIsZero(m, results, err) ==
    [(IF err # "" THEN Return(vmPush(m, StrV(err)), Ret(FALSE, -1, ""))
      ELSE IF results < 0 THEN Return(m, Ret(TRUE, 0, ""))
      ELSE Return(m, Ret(TRUE, CInt(results), ""))) EXCEPT !.l = ZeroState]

\* zombiezen_lua_gocb without the deferred reset of the callback's State.
gocb_exit_keepsState(m, results, err) ==
    IF err # "" THEN Return(vmPush(m, StrV(err)), Ret(FALSE, -1, ""))
    ELSE IF results < 0
    THEN Return(vmPush(m, StrV("Go callback returned negative results")), Ret(FALSE, -1, ""))
    ELSE Return(m, Ret(TRUE, CInt(results), ""))

\* zombiezen_lua_gocb after Function.pcall returned (results, err): the C
\* int it returns, and the deferred reset of the callback's State.
gocb_exit(m, results, err) ==
    [(IF err # "" THEN Return(vmPush(m, StrV(err)), Ret(FALSE, -1, ""))
      ELSE IF results < 0
      THEN Return(vmPush(m, StrV("Go callback returned negative results")),
                  Ret(FALSE, -1, ""))
      ELSE Return(m, Ret(TRUE, CInt(results), ""))) EXCEPT !.l = ZeroState]

\* zombiezen_lua_callback after zombiezen_lua_gocb returned nres, and the
\* rest of lua_pcallk: a negative nres raises the value on the top as the
\* error, otherwise the nres topmost values are the results.
zombiezen_lua_callback(m, fr, nres) ==
    IF m.ci = <<>> \/ Len(m.ci) # fr.depth + 1 THEN Fatal(m)
    ELSE IF nres < 0
    THEN vmFinishErr(vmLeave([m EXCEPT !.ub = @ \/ lua_gettop(m) < 1]),
                     fr.funcpos, vmTopValue(m, 0), fr.msgh)
    ELSE LET have == lua_gettop(m)
             rs == [i \in 1..nres |->
                       IF nres - i < have THEN m.stack[Len(m.stack) - (nres - i)]
                       ELSE GarbageV(m)]
         IN vmFinishOK(vmLeave([m EXCEPT !.ub = @ \/ nres > have]),
                       fr.funcpos, rs, fr.nresults)

\* ------------------------------------------------------------ chunks
loadModeOK(mode) == mode \in {"bt", "t", "b"}

\* lua_load of a text chunk: the compiled function, its first upvalue the
\* globals table, or the error message.
lua_load(m, src, mode) ==
    IF m.ci = <<>> THEN Fatal(m)
    ELSE IF mode = "b"
    THEN [vmPush(m, StrV("attempt to load a text chunk (mode is 'b')")) EXCEPT
             !.ret = Ret(FALSE, 0, "ERRSYNTAX")]
    ELSE IF ~ChunkOK(src)
    THEN [vmPush(m, StrV("syntax error near <eof>")) EXCEPT !.ret = Ret(FALSE, 0, "ERRSYNTAX")]
    ELSE [vmPush([m EXCEPT !.heap = Append(@, [Obj("function") EXCEPT
                            !.fn = src,
                            !.upv = <<TGet(m.heap[RegistryId], IntV(RegistryIndexGlobals))>>])],
                 FuncV(Len(m.heap) + 1)) EXCEPT !.ret = Ret(TRUE, 0, "OK")]

loadTail(m, src, mode) ==
    Let([lua_load(m, src, mode) EXCEPT !.l.top = @ + 1], LAMBDA m1 :
        IF m1.ret.s = "OK" THEN Return(m1, Ret(TRUE, 0, ""))
        ELSE Let(newError(m1, m1.ret.s), LAMBDA m2 :
                 IF m2.panic # "" THEN m2
                 ELSE Return(m2, Ret(FALSE, 0, "lua: load: " \o m2.ret.s))))

\* LoadString reporting an unknown mode without pushing the message.
LoadString_modeErrorUnpushed(m, src, mode) ==
    LET m1 == init(m)
    IN IF m1.panic # "" THEN m1
       ELSE IF m1.l.top >= m1.l.cap THEN Panic(m1, "stack overflow")
       ELSE IF ~loadModeOK(mode)
       THEN Return(m1, Ret(FALSE, 0, "lua: load: unknown load mode"))
       ELSE loadTail(m1, src, mode)

LoadString(m, src, mode) ==
    LET m1 == init(m)
    IN IF m1.panic # "" THEN m1
       ELSE IF m1.l.top >= m1.l.cap THEN Panic(m1, "stack overflow")
       ELSE IF ~loadModeOK(mode)
       THEN Return(PushString(m1, "unknown load mode"), Ret(FALSE, 0, "lua: load: unknown load mode"))
       ELSE loadTail(m1, src, mode)

\* Load: as LoadString, with the reader behind a handle that lives for the
\* duration of the call.
Load(m, src, mode) ==
    Let(init(m), LAMBDA m1 :
        IF m1.panic # "" THEN m1
        ELSE IF m1.l.top >= m1.l.cap THEN Panic(m1, "stack overflow")
        ELSE IF ~loadModeOK(mode)
        THEN Return(PushString(m1, "unknown load mode"),
                    Ret(FALSE, 0, "lua: load: unknown load mode"))
        ELSE Let(NewHandle(m1, GoVal(FALSE, 0)), LAMBDA m2 :
             Let(loadTail(m2, src, mode), LAMBDA m3 :
                 [Handle_Delete([m3 EXCEPT !.panic = ""], m2.ret.n) EXCEPT
                     !.ret = m3.ret, !.panic = m3.panic])))

\* ------------------------------------------------------------ collection
RefIds(m, v) ==
    IF (v.t \in {"table", "userdata"} \/ (v.t = "function" /\ v.n > 0)) /\ v.n \in 1..Len(m.heap)
    THEN {v.n} ELSE {}

ObjRefs(m, o) ==
    UNION {RefIds(m, o.entries[i].k) \cup RefIds(m, o.entries[i].v) : i \in 1..Len(o.entries)}
    \cup UNION {RefIds(m, o.uv[i]) : i \in 1..Len(o.uv)}
    \cup UNION {RefIds(m, o.upv[i]) : i \in 1..Len(o.upv)}
    \cup (IF o.mt # 0 THEN {o.mt} ELSE {})

Roots(m) ==
    ({RegistryId} \cup UNION {RefIds(m, m.stack[i]) : i \in 1..Len(m.stack)}
     \cup {m.gmt[t] : t \in DOMAIN m.gmt}) \ {0}

RECURSIVE ReachFrom(_, _)
ReachFrom(m, S) ==
    LET S2 == S \cup UNION {ObjRefs(m, m.heap[i]) : i \in S}
    IN IF S2 = S THEN S ELSE ReachFrom(m, S2)

Reachable(m) == ReachFrom(m, Roots(m))

\* GCTM: the __gc metamethod of object u is called with u, and u is no
\* longer marked for finalization.  Of the values __gc can hold, the model
\* runs the finalizer of the bridge.
GCTM(m, u) ==
    LET o == m.heap[u]
        tm == IF o.mt # 0 THEN TGet(m.heap[o.mt], StrV("__gc")) ELSE NilV
        m1 == [m EXCEPT !.heap[u].fin = FALSE]
    IN IF IsGcHandleFn(tm)
       THEN callGcHandle(m1, tm, <<Val(IF o.kind = "table" THEN "table" ELSE "userdata", "", u)>>)
       ELSE m1

\* lua_close: the finalizers of every marked object, latest first, then
\* the VM is freed.
RECURSIVE callAllPendingFinalizers(_, _)
callAllPendingFinalizers(m, i) ==
    IF i = 0 THEN m
    ELSE callAllPendingFinalizers(IF m.heap[i].fin THEN GCTM(m, i) ELSE m, i - 1)

lua_close(m) ==
    IF m.ci = <<>> THEN Fatal(m)
    ELSE IF Len(m.ci) > 1 THEN UB(m)
    ELSE [callAllPendingFinalizers(m, Len(m.heap)) EXCEPT
             !.stack = <<>>, !.ci = <<>>, !.heap = <<>>, !.gmt = NoGmt]

\* Close without the reset of the State.
Close_keepsLedger(m) ==
    IF m.panic # "" THEN m
    ELSE IF m.l.ptr # 0 THEN lua_close(m)
    ELSE m

Close(m) ==
    IF m.panic # "" THEN m
    ELSE IF m.l.ptr # 0 THEN [lua_close(m) EXCEPT !.l = ZeroState]
    ELSE m

\* ------------------------------------------------------------ the machine
Garbage == {0, 1}

\* What a Go function does when it ends: it returns (results, err), err ""
\* standing for nil, or it panics with a value that is an error, a string or
\* an integer.
NoPanic == [k |-> "none", s |-> "", n |-> 0]
GoReturn(results, err) == [results |-> results, err |-> err, panic |-> NoPanic]
GoPanic(k, s, n) == [results |-> 0, err |-> "", panic |-> [k |-> k, s |-> s, n |-> n]]

\* What an operation's run of zombiezen_lua_gocb left behind: the callback's
\* State once the trampoline returned, whether the upvalue was found
\* corrupted, what the Go function did, the values the trampoline pushed
\* after it and the int the trampoline returned.
NoCallback ==
    [ran |-> FALSE, corrupt |-> FALSE, state |-> ZeroState, out |-> GoReturn(0, ""),
     pushed |-> <<>>, code |-> 0]

Callback(before, after, corrupt, out) ==
    [ran |-> TRUE, corrupt |-> corrupt, state |-> after.l, out |-> out,
     pushed |-> SubSeq(after.stack, Len(before.stack) + 1, Len(after.stack)),
     code |-> after.ret.n]

\* The machine an operation starts from; g is what a read of memory that
\* holds no value of the program's will yield during it.
Cur(g) ==
    [l |-> l, stack |-> stack, ci |-> ci, heap |-> heap, gmt |-> gmt,
     handles |-> handles, panic |-> "", ub |-> FALSE, fatal |-> FALSE,
     ret |-> NoRet, g |-> g, cb |-> NoCallback, nomem |-> FALSE]

\* The same when the process has no memory left for a VM (nomem): the next
\* luaL_newstate returns NULL.
CurAlloc(nomem) == [Cur(0) EXCEPT !.nomem = nomem]

VmTop == IF ci = <<>> THEN 0 ELSE lua_gettop(Cur(0))

Budget ==
    CASE profile = "stack" -> MaxOpsStack
      [] profile = "handle" -> MaxOpsHandle
      [] profile = "finalizer" -> MaxOpsFinalizer
      [] profile = "call" -> MaxOpsCall
      [] profile = "reserve" -> MaxOpsReserve
      [] profile = "closure" -> MaxOpsClosure
      [] profile = "trampoline" -> MaxOpsTrampoline
      [] profile = "release" -> MaxOpsRelease
      [] profile = "load" -> MaxOpsLoad
      [] profile = "protected" -> MaxOpsProtected
      [] profile = "uservalue" -> MaxOpsUserValue
      [] profile = "copy" -> MaxOpsCopy
      [] profile = "tostring" -> MaxOpsToString
      [] profile = "index" -> MaxOpsIndex
      [] profile = "stale" -> MaxOpsStale
      [] profile = "stalevalue" -> MaxOpsStaleValue
      [] profile = "nomem" -> MaxOpsNoMem
      [] OTHER -> MaxOps

NoOp == [op |-> "", args |-> <<0, 0, 0>>, sarg |-> "", panic |-> ""]

Outcome(op, args, sarg, pre, vtop, m2, crashed) ==
    [op |-> op, args |-> args, sarg |-> sarg, pre |-> pre, vtop |-> vtop,
     panic |-> IF crashed THEN "" ELSE m2.panic,
     ret |-> IF crashed THEN NoRet ELSE m2.ret,
     crashed |-> crashed,
     cb |-> IF crashed THEN NoCallback ELSE m2.cb,
     prev |-> [op |-> res.op, args |-> res.args, sarg |-> res.sarg, panic |-> res.panic]]

\* The end of an operation that leaves the machine m2: the variables take
\* m2's values; an operation that ran into undefined behaviour may instead
\* have killed the process, and one on a NULL lua_State has.  Nothing runs
\* after undefined behaviour.
Commit(op, args, sarg, pre, vtop, m2, callers2) ==
    /\ nOps' = nOps + 1
    /\ profile' = profile
    /\ \/ /\ ~m2.fatal
          /\ l' = m2.l /\ stack' = m2.stack /\ ci' = m2.ci /\ heap' = m2.heap
          /\ gmt' = m2.gmt /\ handles' = m2.handles /\ callers' = callers2
          /\ ub' = m2.ub
          /\ res' = Outcome(op, args, sarg, pre, vtop, m2, FALSE)
       \/ /\ m2.ub
          /\ UNCHANGED <<l, stack, ci, heap, gmt, handles, callers>>
          /\ ub' = TRUE
          /\ res' = Outcome(op, args, sarg, pre, vtop, m2, TRUE)

Ready == ~ub /\ nOps < Budget

Do(op, args, sarg, m2) == Ready /\ Commit(op, args, sarg, l, VmTop, m2, callers)

InitWith(p) ==
    /\ l = ZeroState /\ callers = <<>> /\ stack = <<>> /\ ci = <<>> /\ heap = <<>>
    /\ gmt = NoGmt /\ handles = <<>> /\ ub = FALSE /\ nOps = 0 /\ profile = p
    /\ res = [op |-> "", args |-> <<0, 0, 0>>, sarg |-> "", pre |-> ZeroState, vtop |-> 0,
              panic |-> "", ret |-> NoRet, crashed |-> FALSE, cb |-> NoCallback,
              prev |-> NoOp]

Init == InitWith("all")

\* ------------------------------------------------------------ inputs
\* The arguments the operations are tried with, by profile.
Idx ==
    CASE profile = "stack" -> {1, -1, -2, 0}
      [] profile = "handle" -> {1, 2, -1}
      [] profile = "finalizer" -> {1, -1}
      [] profile = "call" -> {1, -1, goClosureUpvalueIndex}
      [] profile = "trampoline" -> {-1, -2, goClosureUpvalueIndex}
      [] profile = "stale" -> {-1, goClosureUpvalueIndex}
      [] profile = "stalevalue" -> {1, -1}
      [] profile = "protected" -> {1, RegistryIndex}
      [] profile = "uservalue" -> {1, -1, -2}
      [] profile = "copy" -> {1, 2, -1, -2, LUA_MINSTACK, RegistryIndex}
      [] profile = "tostring" -> {-1, -2}
      [] profile \in {"reserve", "index"} ->
             {0, 1, 2, -1, -2, -3, LUA_MINSTACK, LUA_MINSTACK + 1, RegistryIndex,
              goClosureUpvalueIndex}
      [] OTHER -> {1, -1, RegistryIndex}

Tops ==
    CASE profile = "stack" -> {0, 1, LUA_MINSTACK - 1, LUA_MINSTACK, LUA_MINSTACK + 1, -1, -2}
      [] profile = "handle" -> {0, LUA_MINSTACK - 3, LUA_MINSTACK - 2, LUA_MINSTACK}
      [] profile = "finalizer" -> {0}
      [] profile = "call" -> {0, LUA_MINSTACK}
      [] profile = "index" -> {0, 2, LUA_MINSTACK}
      [] profile = "reserve" ->
             {0, 1, 2, LUA_MINSTACK, LUA_MINSTACK + 1, -1, -2, -3, RegistryIndex}
      [] OTHER -> {0, LUA_MINSTACK}

Pops ==
    CASE profile = "stack" -> {1, 2, -1}
      [] profile = "reserve" -> {0, 1, 2, 3}
      [] OTHER -> {1}

Keys == IF profile \in {"finalizer", "stale", "stalevalue"} THEN {"__gc"} ELSE {"k", "__gc"}

TNames == {handleMetatableName}

\* The arguments of PushGoValue: nil and a value; the runs that study the
\* handle of a closure push no Go value.
GoValues ==
    IF profile = "stale" THEN {}
    ELSE {[isNil |-> TRUE, v |-> 0], [isNil |-> FALSE, v |-> 42]}

\* The indices given to ToGoValue.
GoValueIdx == IF profile = "stale" THEN {} ELSE Idx

UVCounts ==
    CASE profile = "all" -> {0, 1}
      [] profile = "uservalue" -> {0, 1}
      [] profile = "closure" -> {0, 1, 2, -1, 255}
      [] profile = "stalevalue" -> {}
      [] OTHER -> {0}

\* The arguments of UpvalueIndex.
UpvalueArgs == {0, 1, 2, 3, 255, 256}

\* The number of pushes a client makes in a row.
PushRuns ==
    CASE profile = "protected" -> {2}
      [] profile = "uservalue" -> {LUA_MINSTACK - 1}
      [] OTHER -> {LUA_MINSTACK, LUA_MINSTACK + 1}

\* The largest request includes one that does not fit C's int and Go's
\* largest int.
Grows ==
    IF profile = "reserve"
    THEN {0, 3, LUA_MINSTACK + 1, -1, LUAI_MAXSTACK, 2 ^ (CIntBits - 1), MaxInt}
    ELSE {3, MaxInt}

\* <<nArgs, nResults, msgHandler>>
CallArgs ==
    CASE profile = "finalizer" -> {<<1, 0, 0>>}
      [] profile = "call" ->
            {<<0, 0, 0>>, <<1, 1, 0>>, <<0, MultipleReturns, 0>>, <<0, 3, 1>>,
             <<-1, 0, 0>>, <<0, -2, 0>>, <<0, LUA_MINSTACK, 0>>,
             <<MaxInt, 0, 0>>, <<0, MaxInt, 0>>}
      [] profile = "closure" -> {<<0, 0, 0>>, <<1, 1, 0>>, <<0, 1, 1>>}
      [] profile = "trampoline" -> {<<1, 0, 0>>}
      [] profile \in {"stale", "stalevalue"} -> {<<1, 0, 0>>}
      [] profile = "protected" -> {<<0, 0, 0>>}
      [] OTHER -> {<<0, 0, 0>>, <<1, MultipleReturns, 0>>, <<0, 1, 1>>}

\* <<source, mode>>
Chunks ==
    IF profile = "call"
    THEN {<<"return 1, 2", "t">>, <<"error('boom')", "bt">>}
    ELSE IF profile = "closure" THEN {<<"return 1, 2", "t">>}
    ELSE IF profile = "protected" THEN {<<"return 1, 2", "t">>, <<"error(42)", "bt">>}
    ELSE IF profile = "tostring"
    THEN {<<"return 'desc'", "t">>, <<"error(42)", "bt">>, <<"return", "t">>}
    ELSE {<<"return 1, 2", "t">>, <<"error(42)", "bt">>, <<"x =", "t">>, <<"return", "x">>}

\* How the running Go function ends.
Returns ==
    CASE profile = "call" ->
             {GoReturn(0, ""), GoReturn(1, ""), GoReturn(2, ""), GoReturn(-1, ""),
              GoReturn(0, "boom")}
      [] profile = "closure" ->
             {GoReturn(0, ""), GoReturn(1, ""), GoReturn(-1, ""), GoReturn(0, "boom"),
              GoReturn(1, "boom"), GoPanic("error", "bad", 0), GoPanic("string", "oops", 0),
              GoPanic("int", "", 7)}
      [] profile = "trampoline" ->
             {GoReturn(0, ""), GoReturn(0, "boom"), GoReturn(-1, ""),
              GoPanic("string", "oops", 0)}
      [] profile = "stale" -> {GoReturn(0, "")}
      [] OTHER -> {GoReturn(1, ""), GoReturn(0, "boom")}

\* ------------------------------------------------------------ operations
\* Whether the allocation of a VM fails during the operation.
AllocFails == IF profile = "nomem" THEN {FALSE, TRUE} ELSE {FALSE}

DoPushNil ==
    \E f \in AllocFails :
        Do("PushNil", <<0, 0, 0>>, IF f THEN "nomem" ELSE "", PushNil(CurAlloc(f)))
DoPushNumber == Do("PushNumber", <<1, 0, 0>>, "", PushNumber(Cur(0), 1))
DoPushInteger == Do("PushInteger", <<1, 0, 0>>, "", PushInteger(Cur(0), 1))
DoPushString == Do("PushString", <<0, 0, 0>>, "s", PushString(Cur(0), "s"))
DoPushBoolean == Do("PushBoolean", <<1, 0, 0>>, "", PushBoolean(Cur(0), TRUE))
DoPushLightUserdata == Do("PushLightUserdata", <<7, 0, 0>>, "", PushLightUserdata(Cur(0), 7))

DoPushValue ==
    \E idx \in Idx, g \in Garbage :
        Do("PushValue", <<idx, 0, 0>>, "", PushValue(Cur(g), idx))

DoSetTop == \E idx \in Tops : Do("SetTop", <<idx, 0, 0>>, "", SetTop(Cur(0), idx))
DoPop == \E n \in Pops : Do("Pop", <<n, 0, 0>>, "", Pop(Cur(0), n))
DoRotate == \E idx \in Idx : Do("Rotate", <<idx, 1, 0>>, "", Rotate(Cur(0), idx, 1))
DoRemove == \E idx \in Idx : Do("Remove", <<idx, 0, 0>>, "", Remove(Cur(0), idx))
DoCopy == \E idx \in Idx : Do("Copy", <<-1, idx, 0>>, "", Copy(Cur(0), -1, idx))
DoReplace == \E idx \in Idx : Do("Replace", <<idx, 0, 0>>, "", Replace(Cur(0), idx))
DoCheckStack ==
    \E n \in Grows, f \in AllocFails :
        Do("CheckStack", <<n, 0, 0>>, IF f THEN "nomem" ELSE "", CheckStack(CurAlloc(f), n))
DoAbsIndex == \E idx \in Idx : Do("AbsIndex", <<idx, 0, 0>>, "", AbsIndex(Cur(0), idx))
DoType == \E idx \in Idx : Do("Type", <<idx, 0, 0>>, "", Type(Cur(0), idx))
DoToString == \E idx \in Idx : Do("ToString", <<idx, 0, 0>>, "", State_ToString(Cur(0), idx))

DoToGoValue ==
    \E idx \in GoValueIdx, g \in Garbage :
        Do("ToGoValue", <<idx, 0, 0>>, "", ToGoValue(Cur(g), idx))

DoRawEqual == \E idx \in Idx : Do("RawEqual", <<1, idx, 0>>, "", RawEqual(Cur(0), 1, idx))
DoRawGet == \E idx \in Idx : Do("RawGet", <<idx, 0, 0>>, "", RawGet(Cur(0), idx))
DoRawIndex == \E idx \in Idx : Do("RawIndex", <<idx, 1, 0>>, "", RawIndex(Cur(0), idx, 1))
DoRawField ==
    \E idx \in Idx, k \in Keys : Do("RawField", <<idx, 0, 0>>, k, RawField(Cur(0), idx, k))
DoCreateTable == Do("CreateTable", <<0, 0, 0>>, "", CreateTable(Cur(0)))
DoNewUserdataUV ==
    \E n \in UVCounts : Do("NewUserdataUV", <<n, 0, 0>>, "", NewUserdataUV(Cur(0), n))
DoMetatable == \E idx \in Idx : Do("Metatable", <<idx, 0, 0>>, "", Metatable(Cur(0), idx))
\* The user value asked for: the first, and with user values under study also
\* none (0) and one the userdata does not have (2).
UVSlots == IF profile = "uservalue" THEN {0, 1, 2} ELSE {1}
DoUserValue ==
    \E idx \in Idx, n \in UVSlots :
        Do("UserValue", <<idx, n, 0>>, "", UserValue(Cur(0), idx, n))
DoRawSet == \E idx \in Idx : Do("RawSet", <<idx, 0, 0>>, "", RawSet(Cur(0), idx))
RawSetIndexKeys == IF profile = "protected" THEN {RegistryIndexGlobals} ELSE {1}
DoRawSetIndex ==
    \E idx \in Idx, n \in RawSetIndexKeys :
        Do("RawSetIndex", <<idx, n, 0>>, "", RawSetIndex(Cur(0), idx, n))

\* Message handler arguments: none, the bottom and the top of the stack, an
\* index above the top but within the capacity, and a pseudo-index.
MsgHandlers == {0, 1, -1, LUA_MINSTACK, RegistryIndex}
DoTable ==
    \E idx \in Idx, h \in MsgHandlers :
        Do("Table", <<idx, h, 0>>, "", Table(Cur(0), idx, h))
DoField ==
    \E idx \in Idx, h \in MsgHandlers :
        Do("Field", <<idx, h, 0>>, "x", Field(Cur(0), idx, "x", h))
DoGlobal ==
    \E h \in MsgHandlers : Do("Global", <<0, h, 0>>, "x", Global(Cur(0), "x", h))
DoSetTable ==
    \E idx \in Idx, h \in MsgHandlers :
        Do("SetTable", <<idx, h, 0>>, "", SetTable(Cur(0), idx, h))
DoSetField ==
    \E idx \in Idx, h \in MsgHandlers :
        Do("SetField", <<idx, h, 0>>, "x", SetField(Cur(0), idx, "x", h))
DoSetGlobal ==
    \E h \in MsgHandlers : Do("SetGlobal", <<0, h, 0>>, "x", SetGlobal(Cur(0), "x", h))
FieldNames == IF profile = "tostring" THEN {"__tostring"} ELSE {"k"}
DoRawSetField ==
    \E idx \in Idx, k \in FieldNames :
        Do("RawSetField", <<idx, 0, 0>>, k, RawSetField(Cur(0), idx, k))
DoAuxToString ==
    \E idx \in Idx : Do("lua.ToString", <<idx, 0, 0>>, "", aux_ToString(Cur(0), idx))
DoSetMetatable == \E idx \in Idx : Do("SetMetatable", <<idx, 0, 0>>, "", SetMetatable(Cur(0), idx))
DoSetUserValue ==
    \E idx \in Idx, n \in UVSlots :
        Do("SetUserValue", <<idx, n, 0>>, "", SetUserValue(Cur(0), idx, n))
DoNext == \E idx \in Idx : Do("Next", <<idx, 0, 0>>, "", State_Next(Cur(0), idx))

DoAuxMetatable ==
    \E t \in TNames : Do("lua.Metatable", <<0, 0, 0>>, t, aux_Metatable(Cur(0), t))
DoNewMetatable ==
    \E t \in TNames : Do("lua.NewMetatable", <<0, 0, 0>>, t, NewMetatable(Cur(0), t))
DoAuxSetMetatable ==
    \E t \in TNames : Do("lua.SetMetatable", <<0, 0, 0>>, t, aux_SetMetatable(Cur(0), t))

DoPushGoValue ==
    \E x \in GoValues :
        Do("PushGoValue", <<x.v, 0, 0>>, IF x.isNil THEN "nil" ELSE "",
           PushGoValue(Cur(0), x.isNil, x.v))

DoPushClosure ==
    \E n \in UVCounts : Do("PushClosure", <<n, 0, 0>>, "", PushClosure(Cur(0), n, 1))

\* A Go function reading its upvalue i, as l.PushValue(lua.UpvalueIndex(i)).
DoPushUpvalue ==
    \E i \in UpvalueArgs, g \in Garbage :
        Do("PushUpvalue", <<i, 0, 0>>, "",
           Let(UpvalueIndex(Cur(g), i), LAMBDA m1 : PushValue(m1, m1.ret.n)))

\* k pushes of one value each, one after the other.
DoPushNils ==
    \E k \in PushRuns : Do("PushNils", <<k, 0, 0>>, "", PushNilTimes(Cur(0), k))

DoLoad ==
    \E c \in Chunks : Do("Load", <<0, 0, 0>>, c[1], Load(Cur(0), c[1], c[2]))
DoLoadString ==
    \E c \in Chunks : Do("LoadString", <<0, 0, 0>>, c[1], LoadString(Cur(0), c[1], c[2]))

DoClose == \E g \in Garbage : Do("Close", <<0, 0, 0>>, "", Close(Cur(g)))

\* Call.  A call of a Go closure whose upvalue 1 yields its Function hands
\* control to that function: the operations that follow are the function's,
\* on the callback's State, until DoReturn.  Every other call runs to its end.
DoCall ==
    \E a \in CallArgs, g \in Garbage :
        /\ Ready
        /\ Let(CallChecks(Cur(g), a[1], a[2], a[3]), LAMBDA m1 :
           Let(Len(stack) - CInt(a[1]), LAMBDA funcpos :
           Let(IF m1.panic = "" THEN CInt(m1.ret.n) ELSE 0, LAMBDA msgh :
           Let([l |-> l, vtop |-> VmTop, args |-> a,
                toPop |-> CallToPop(a[1]), newTop |-> CallNewTop(l, a[1], a[2]),
                nresults |-> CInt(a[2]), msgh |-> msgh,
                funcpos |-> funcpos, depth |-> Len(ci)], LAMBDA fr :
               /\ ~(/\ msgh >= 1 /\ Base(m1) + msgh <= Len(stack)
                    /\ IsGoClosure(m1, stack[Base(m1) + msgh]))
               /\ IF ~(/\ m1.panic = "" /\ ci # <<>>
                       /\ funcpos > Base(m1) /\ funcpos <= Len(stack)
                       /\ IsGoClosure(m1, stack[funcpos]))
                  THEN Commit("Call", a, "", l, VmTop, Call(Cur(g), a[1], a[2], a[3]), callers)
                  ELSE Let(gocb_enter(vmEnter(m1, funcpos)), LAMBDA m2 :
                       IF m2.ret.b /\ m2.panic = "" /\ ~m2.ub
                       THEN /\ Len(callers) < MaxDepth
                            /\ Commit("Call.enter", a, "", l, VmTop, m2, Append(callers, fr))
                       ELSE IF m2.panic # ""
                       THEN Commit("Call", a, "", l, VmTop, [m2 EXCEPT !.l = l], callers)
                       ELSE Let(gocb_exit(m2, 0, "Go closure upvalue corrupted"), LAMBDA m3 :
                            Commit("Call", a, "", l, VmTop,
                                   CallReturn(
                                       [zombiezen_lua_callback(m3, fr, -1) EXCEPT
                                            !.l = l,
                                            !.cb = Callback(m2, m3, TRUE, GoReturn(0, ""))],
                                       fr.toPop, fr.newTop),
                                   callers)))))))

\* The running Go function returns (or panics), and the Call that ran it ends.
DoReturn ==
    \E r \in Returns, g \in Garbage :
        /\ Ready
        /\ callers # <<>>
        /\ Let(callers[Len(callers)], LAMBDA fr :
           Let(pcall(r), LAMBDA pc :
           Let(gocb_exit(Cur(g), pc.nResults, pc.err), LAMBDA m1 :
               Commit("Call", fr.args, "", fr.l, fr.vtop,
                      CallReturn([zombiezen_lua_callback(m1, fr, m1.ret.n) EXCEPT
                                      !.l = fr.l,
                                      !.cb = Callback(Cur(g), m1, FALSE, r)],
                                 fr.toPop, fr.newTop),
                      SubSeq(callers, 1, Len(callers) - 1)))))

\* The collector finalizes an object that is marked and out of reach.
DoCollect ==
    \E u \in 1..Len(heap), g \in Garbage :
        /\ ~ub /\ ci # <<>>
        /\ heap[u].fin
        /\ u \notin Reachable(Cur(g))
        /\ Let(GCTM(Cur(g), u), LAMBDA m2 :
               /\ heap' = m2.heap /\ handles' = m2.handles /\ ub' = m2.ub
               /\ UNCHANGED <<l, callers, stack, ci, gmt, res, nOps, profile>>)

\* ------------------------------------------------------------ specifications
Next ==
    \/ DoPushNil \/ DoPushNumber \/ DoPushInteger \/ DoPushString \/ DoPushBoolean
    \/ DoPushLightUserdata \/ DoPushValue \/ DoSetTop \/ DoPop \/ DoRotate \/ DoRemove
    \/ DoCopy \/ DoReplace \/ DoCheckStack \/ DoAbsIndex \/ DoType \/ DoToString
    \/ DoToGoValue \/ DoRawEqual \/ DoRawGet \/ DoRawIndex \/ DoRawField
    \/ DoCreateTable \/ DoNewUserdataUV \/ DoMetatable \/ DoUserValue \/ DoRawSet
    \/ DoRawSetIndex \/ DoRawSetField \/ DoSetMetatable \/ DoSetUserValue \/ DoNext
    \/ DoAuxMetatable \/ DoNewMetatable \/ DoAuxSetMetatable \/ DoPushGoValue
    \/ DoPushClosure \/ DoLoad \/ DoLoadString \/ DoClose \/ DoCall \/ DoReturn
    \/ DoCollect

Spec == Init /\ [][Next]_vars

\* Pushes, SetTop and Pop on one State.
NextStack ==
    \/ DoPushNil \/ DoPushNumber \/ DoPushInteger \/ DoPushString \/ DoPushBoolean
    \/ DoPushLightUserdata \/ DoPushValue \/ DoSetTop \/ DoPop
    \/ DoCreateTable \/ DoNewUserdataUV

InitStack == InitWith("stack")
SpecStack == InitStack /\ [][NextStack]_vars

\* The handle bridge: wrapping and unwrapping Go values.
NextHandle ==
    \/ DoPushGoValue \/ DoToGoValue \/ DoPushClosure \/ DoSetTop \/ DoPop \/ DoType
    \/ DoNewUserdataUV \/ DoAuxSetMetatable

InitHandle == InitWith("handle")
SpecHandle == InitHandle /\ [][NextHandle]_vars

\* The finalizer of the bridge, run by the collector, by Close and by hand.
NextFinalizer ==
    \/ DoPushGoValue \/ DoPushClosure \/ DoAuxMetatable \/ DoRawField \/ DoPushValue
    \/ DoCall \/ DoReturn \/ DoSetTop \/ DoCollect \/ DoClose

InitFinalizer == InitWith("finalizer")
SpecFinalizer == InitFinalizer /\ [][NextFinalizer]_vars

\* Protected calls of chunks, Go closures and values that cannot be called.
NextCall ==
    \/ DoPushNil \/ DoLoadString \/ DoPushClosure \/ DoCall \/ DoReturn
    \/ DoPushValue \/ DoCopy \/ DoType \/ DoSetTop

InitCall == InitWith("call")
SpecCall == InitCall /\ [][NextCall]_vars

\* Reserving capacity, setting the top and converting indices, with a table
\* traversal as the operation that pushes without a capacity test.
NextReserve ==
    \/ DoCheckStack \/ DoPushNil \/ DoPushInteger \/ DoSetTop \/ DoPop \/ DoAbsIndex
    \/ DoNext

InitReserve == InitWith("reserve")
SpecReserve == InitReserve /\ [][NextReserve]_vars

\* Go closures with upvalues, called, and how the Go function ends.
NextClosure ==
    \/ DoPushNil \/ DoPushInteger \/ DoLoadString \/ DoPushClosure \/ DoCall
    \/ DoReturn \/ DoPushUpvalue \/ DoPushNils

InitClosure == InitWith("closure")
SpecClosure == InitClosure /\ [][NextClosure]_vars

\* The trampoline of a Go closure, entered and left in every way, also after
\* the closure's own handle lost its metatable.
NextTrampoline ==
    \/ DoPushClosure \/ DoPushValue \/ DoPushNil \/ DoSetMetatable \/ DoCall \/ DoReturn

InitTrampoline == InitWith("trampoline")
SpecTrampoline == InitTrampoline /\ [][NextTrampoline]_vars

\* Go values and closures pushed, dropped and collected, and the State
\* closed.
NextRelease ==
    \/ DoPushGoValue \/ DoPushClosure \/ DoPushNils \/ DoPop \/ DoSetTop \/ DoClose
    \/ DoCollect

InitRelease == InitWith("release")
SpecRelease == InitRelease /\ [][NextRelease]_vars

\* Chunks loaded from strings and readers, good and bad, at every fill of
\* the stack.
NextLoad ==
    \/ DoLoad \/ DoLoadString \/ DoPushNil \/ DoPushNils \/ DoPop \/ DoClose

InitLoad == InitWith("load")
SpecLoad == InitLoad /\ [][NextLoad]_vars

\* The protected table operations and Call, with every kind of message
\* handler argument; RawSetIndex replaces the registry's globals entry.
NextProtected ==
    \/ DoPushNil \/ DoPushNils \/ DoPushInteger \/ DoCreateTable \/ DoLoadString
    \/ DoRawSetIndex
    \/ DoCall \/ DoTable \/ DoField \/ DoGlobal \/ DoSetTable \/ DoSetField \/ DoSetGlobal

\* Values with and without a __tostring metamethod, given to ToString.
NextToString ==
    \/ DoCreateTable \/ DoPushInteger \/ DoLoadString \/ DoRawSetField
    \/ DoSetMetatable \/ DoAuxToString

InitToString == InitWith("tostring")
SpecToString == InitToString /\ [][NextToString]_vars

\* Indices of every class given to Type, on stacks of several heights and
\* capacities.
NextIndex == DoPushNil \/ DoSetTop \/ DoPop \/ DoCheckStack \/ DoType

InitIndex == InitWith("index")
SpecIndex == InitIndex /\ [][NextIndex]_vars

\* Handles released by a run of the finalizer that the program itself
\* started, and then used again.  A run is of one of two kinds: it makes Go
\* closures, has one release its own handle and calls it again ("stale"), or
\* it pushes Go values, releases one and reads it back ("stalevalue").
NextStale ==
    \/ DoPushGoValue \/ DoPushClosure \/ DoAuxMetatable \/ DoRawField \/ DoPushValue
    \/ DoCall \/ DoReturn \/ DoToGoValue

InitStale == InitWith("stale") \/ InitWith("stalevalue")
SpecStale == InitStale /\ [][NextStale]_vars

\* States created, used and closed in a process whose memory may not suffice
\* for a new VM.
NextNoMem == DoPushNil \/ DoCheckStack \/ DoSetTop \/ DoPop \/ DoType \/ DoClose

InitNoMem == InitWith("nomem")
SpecNoMem == InitNoMem /\ [][NextNoMem]_vars

\* Copy and Replace into positions on the stack, above its top and into the
\* registry.
NextCopy ==
    \/ DoPushNil \/ DoPushInteger \/ DoPushString \/ DoCopy \/ DoReplace

InitCopy == InitWith("copy")
SpecCopy == InitCopy /\ [][NextCopy]_vars

\* Full userdata with and without a user value, up to a full stack.
NextUserValue ==
    \/ DoNewUserdataUV \/ DoPushInteger \/ DoPushNils \/ DoUserValue \/ DoSetUserValue

InitUserValue == InitWith("uservalue")
SpecUserValue == InitUserValue /\ [][NextUserValue]_vars

InitProtected == InitWith("protected")
SpecProtected == InitProtected /\ [][NextProtected]_vars

\* ============================================================ properties
PushOps ==
    {"PushNil", "PushNumber", "PushInteger", "PushString", "PushBoolean",
     "PushLightUserdata", "PushValue", "CreateTable", "NewUserdataUV"}

Done(op) == res.op = op /\ ~res.crashed
Ok(op) == Done(op) /\ res.panic = ""

\* C1: in every state reachable through the public operations the ledger
\* satisfies 0 <= top <= cap (stated for the runs that stay within the C
\* API's contract).
C1_TopWithinCap == ~ub => (0 <= l.top /\ l.top <= l.cap)

\* C2: after every push, SetTop and Pop of a sequence that stays within the
\* reserved capacity, the ledger's top is the VM's own top (lua_gettop); a
\* State with no VM has top 0.
C2_ShadowTopIsVmTop == IF l.ptr = 0 THEN l.top = 0 /\ ci = <<>> ELSE l.top = VmTop

\* The stack was filled to capacity, PushValue pushed the last free slot and
\* Pop removed it again.
C2_Witness ==
    /\ Ok("Pop") /\ res.prev.op = "PushValue" /\ res.prev.panic = ""
    /\ res.pre.top = res.pre.cap /\ l.top = LUA_MINSTACK - 1 /\ VmTop = l.top

\* C3 as stated: a push at top == cap always panics with "stack overflow"
\* and leaves top and cap as they were; a push at top < cap appends one slot
\* and raises top by 1.
C3_PushAtCapacityPanics ==
    (res.op \in PushOps /\ ~res.crashed) =>
        IF res.pre.top = res.pre.cap
        THEN res.panic = "stack overflow" /\ l.top = res.pre.top /\ l.cap = res.pre.cap
        ELSE res.pre.top < res.pre.cap =>
                 res.panic = "" /\ l.top = res.pre.top + 1 /\ VmTop = res.vtop + 1

\* C3 amended: that holds on a State that has a VM; on a State without one
\* (never used, or closed), where top = cap = 0, the push creates the VM with
\* LUA_MINSTACK slots reserved and succeeds.
C3_PushAtCapacityPanicsOnceInstantiated ==
    (res.op \in PushOps /\ ~res.crashed) =>
        IF res.pre.ptr = 0
        THEN res.panic = "" /\ l.ptr # 0 /\ l.top = 1 /\ l.cap = LUA_MINSTACK /\ VmTop = 1
        ELSE IF res.pre.top = res.pre.cap
        THEN res.panic = "stack overflow" /\ l = res.pre /\ VmTop = res.vtop
        ELSE res.pre.top < res.pre.cap =>
                 res.panic = "" /\ l.top = res.pre.top + 1 /\ l.cap = res.pre.cap
                 /\ VmTop = res.vtop + 1

\* CreateTable was refused on a full stack of a State that has a VM.
C3_Witness ==
    /\ Done("CreateTable") /\ res.panic = "stack overflow"
    /\ res.pre.ptr # 0 /\ res.pre.top = res.pre.cap /\ l = res.pre

\* The argument that is the stack index, for the operations that take one.
IndexArg ==
    CASE res.op \in {"Copy", "RawEqual"} -> res.args[2]
      [] OTHER -> res.args[1]

IndexOps ==
    {"PushValue", "Copy", "Replace", "Rotate", "Remove", "Type", "ToString", "ToGoValue",
     "RawEqual", "RawGet", "RawIndex", "RawField", "Metatable", "UserValue", "RawSet",
     "RawSetIndex", "RawSetField", "SetMetatable", "SetUserValue", "Next", "AbsIndex",
     "SetTop"}

\* The userdata that are upvalue 1 of a Go closure.
BridgeSlots ==
    {heap[i].upv[1] : i \in {j \in 1..Len(heap) : heap[j].fn = callbackName /\ heap[j].upv # <<>>}}

\* C4: upvalue 1 of a Go closure is out of reach of the public index space:
\* every operation given RegistryIndex-1 panics, and the userdata in that
\* slot never shows up in a stack slot.
C4_BridgeSlotUnreachable ==
    /\ (res.op \in IndexOps /\ ~res.crashed /\ IndexArg = goClosureUpvalueIndex)
           => res.panic # ""
    /\ \A i \in 1..Len(stack) : stack[i] \notin BridgeSlots

\* C5: PushGoValue(v) raises top by 1 and leaves a userdata (a nil for a nil
\* v) on the top, and ToGoValue of that slot right after it returns v (nil
\* for nil).
C5_GoValueRoundTrip ==
    /\ Ok("PushGoValue") =>
           /\ l.top = res.pre.top + 1
           /\ VmTop = l.top
           /\ lua_type(Cur(0), -1) = IF res.sarg = "nil" THEN "nil" ELSE "userdata"
    /\ (/\ Done("ToGoValue") /\ res.prev.op = "PushGoValue" /\ res.prev.panic = ""
        /\ res.args[1] \in {-1, res.pre.top}) =>
           /\ res.panic = ""
           /\ l = res.pre
           /\ IF res.prev.sarg = "nil" THEN ~res.ret.b
              ELSE res.ret.b /\ res.ret.n = res.prev.args[1] /\ res.ret.s = "value"

\* ToGoValue gave back the value that PushGoValue had just wrapped.
C5_Witness ==
    /\ Ok("ToGoValue") /\ res.prev.op = "PushGoValue" /\ res.prev.panic = ""
    /\ res.prev.sarg = "" /\ res.args[1] = -1
    /\ res.ret.b /\ res.ret.n = 42 /\ l.top >= 1

\* C6: ToGoValue returns a Go value only for a userdata that pushHandle made,
\* and reads no other block as a handle.
C6_OnlyBridgeUserdata ==
    Done("ToGoValue") =>
        LET o == index2value(Cur(0), res.args[1]).v
        IN /\ ~ub
           /\ res.ret.b => (IsFullUserdata(Cur(0), o) /\ heap[o.n].origin # 0)

\* C7: Delete is called at most once on each handle, however often the
\* finalizer runs on its block; once the finalizer has run the token is zero.
C7_DeletedAtMostOnce ==
    /\ \A h \in 1..Len(handles) :
           /\ handles[h].deletes <= 1
           /\ handles[h].live = (handles[h].deletes = 0)
    /\ \A i \in 1..Len(heap) :
           (heap[i].origin # 0 /\ handles[heap[i].origin].runs > 0) =>
               heap[i].token = 0 /\ ~handles[heap[i].origin].live

\* The finalizer ran on a handle's block after the handle was released.
C7_Witness ==
    \E h \in 1..Len(handles) :
        handles[h].runs >= 2 /\ handles[h].deletes = 1 /\ ~handles[h].live

\* C8: PushGoValue of a non-nil value and PushClosure succeed whenever three
\* slots are free, with one net value pushed.
C8_ThreeFreeSlotsSuffice ==
    (/\ res.op \in {"PushGoValue", "PushClosure"} /\ ~res.crashed /\ res.sarg # "nil"
     /\ res.pre.top + 3 <= res.pre.cap) =>
        /\ res.panic = ""
        /\ l.top = res.pre.top + 1 - (IF res.op = "PushClosure" THEN res.args[1] ELSE 0)

\* C9: when Call returns an error, top is the earlier top less nArgs, cap is
\* as it was, and the ledger's top is the VM's.
C9_ErrorLeavesOneValue ==
    (Ok("Call") /\ ~res.ret.b) =>
        /\ l.top = res.pre.top - res.args[1]
        /\ l.cap = res.pre.cap
        /\ l.top = VmTop

\* C10: Call panics, with the ledger and the VM untouched, on nArgs < 0, on
\* fewer than nArgs + 1 values, on a negative nResults other than
\* MultipleReturns, and when the height after the call would exceed cap; a
\* successful call leaves top at that height, or with MultipleReturns at the
\* VM's top with cap raised to it; either way top <= cap and top is the
\* VM's top.
C10_CallChecksAndResync ==
    Done("Call") =>
        LET nArgs == res.args[1]
            nResults == res.args[2]
            height == res.pre.top - (nArgs + 1) + nResults
        IN /\ (\/ nArgs < 0
               \/ res.pre.top < nArgs + 1
               \/ (nResults < 0 /\ nResults # MultipleReturns)
               \/ (nResults >= 0 /\ height > res.pre.cap))
                  => (res.panic # "" /\ l = res.pre /\ VmTop = res.vtop)
           /\ (res.panic = "" /\ res.ret.b) =>
                  /\ IF nResults # MultipleReturns THEN l.top = height /\ l.cap = res.pre.cap
                     ELSE l.cap = max(res.pre.cap, l.top)
                  /\ l.top <= l.cap
                  /\ l.top = VmTop

\* The slots the VM guarantees to the running function: ci->top less the
\* frame's base.
VmCap == IF ci = <<>> THEN 0 ELSE CiTop(Cur(0)) - Base(Cur(0))

\* C11: CheckStack(n) never changes top and never lowers cap; when it
\* returns true, top + n <= cap afterwards, with cap the larger of the old cap
\* and top + n; when it returns false, top and cap are as before (a State
\* that had no VM gets one, with its LUA_MINSTACK slots).
C11_CheckStackKeepsLedger ==
    Done("CheckStack") =>
        LET n == res.args[1]
        IN /\ res.panic = ""
           /\ l.top = res.pre.top
           /\ l.cap >= res.pre.cap
           /\ res.ret.b =>
                  /\ res.pre.top + n <= l.cap
                  /\ \/ l.cap = max(res.pre.cap, res.pre.top + n)
                     \/ res.pre.ptr = 0 /\ l.cap = max(LUA_MINSTACK, res.pre.top + n)
           /\ ~res.ret.b =>
                  /\ l.cap = res.pre.cap \/ (res.pre.ptr = 0 /\ l.cap = LUA_MINSTACK)
                  /\ VmTop = res.vtop

\* C12: CheckStack(n) returns true only if the VM guarantees n slots above
\* top; a request the VM cannot satisfy returns false and leaves cap alone;
\* cap never exceeds what the VM reserved.
C12_CheckStackTrueOnlyIfGuaranteed ==
    /\ l.ptr # 0 => l.cap <= VmCap
    /\ Done("CheckStack") =>
           LET n == res.args[1]
           IN /\ res.ret.b => res.pre.top + n <= VmCap
              /\ res.pre.top + n > LUAI_MAXSTACK =>
                     /\ ~res.ret.b
                     /\ l.cap = res.pre.cap \/ (res.pre.ptr = 0 /\ l.cap = LUA_MINSTACK)

\* What SetTop(n) and Pop(n) do to the ledger l and the slots of the stack
\* in one step.
SetTopStep ==
    LET n == res'.args[1]
        kept == \A i \in 1..Len(stack') :
                    stack'[i] = IF i <= Len(stack) THEN stack[i] ELSE NilV
    IN /\ (res'.op = "SetTop" /\ ~res'.crashed) =>
              /\ isPseudo(n) => res'.panic # ""
              /\ n = 0 => res'.panic = "" /\ l'.top = 0
              /\ (n < 0 /\ ~isPseudo(n)) =>
                     IF l.top + n + 1 < 0 THEN res'.panic = "stack underflow"
                     ELSE res'.panic = "" /\ l'.top = l.top + n + 1
              /\ (0 < n /\ n <= l.cap) => res'.panic = "" /\ l'.top = n
              /\ n > l.cap => res'.panic = "stack overflow"
              /\ res'.panic # "" => l' = l /\ stack' = stack
              /\ res'.panic = "" => Len(stack') = l'.top /\ kept
       /\ (res'.op = "Pop" /\ ~res'.crashed) =>
              /\ (0 <= n /\ n <= l.top) =>
                     /\ res'.panic = ""
                     /\ l'.top = l.top - n
                     /\ stack' = SubSeq(stack, 1, Len(stack) - n)
              /\ n > l.top => res'.panic # "" /\ l' = l /\ stack' = stack

\* C13: SetTop(0) empties the stack; a negative n sets top to top+n+1 and
\* panics with "stack underflow" below 0; 0 < n <= cap sets top to n, the new
\* slots nil; n > cap panics with "stack overflow"; a pseudo-index panics; a
\* panic leaves top and cap alone; Pop(n) removes exactly n elements for
\* 0 <= n <= top and panics for n > top.
C13_SetTopAndPop == [][SetTopStep]_vars

\* Pop(2) took a full stack down by two.
C13_Witness ==
    /\ Ok("Pop") /\ res.args[1] = 2 /\ res.pre.top = LUA_MINSTACK
    /\ l.top = LUA_MINSTACK - 2 /\ VmTop = l.top

\* C14: AbsIndex returns a pseudo-index and a positive index up to cap as
\* they are, maps idx in [-top, -1] to top+idx+1, panics with "unacceptable
\* index" exactly for 0, idx < -top and idx > cap, and never changes the
\* ledger; the negative index of slot i gives i, and AbsIndex of a result is
\* that result.
C14_AbsIndex ==
    Done("AbsIndex") =>
        LET idx == res.args[1]
            top == res.pre.top
            again == AbsIndex(Cur(0), res.ret.n)
        IN /\ l = res.pre /\ VmTop = res.vtop
           /\ IF isPseudo(idx) THEN res.panic = "" /\ res.ret.n = idx
              ELSE IF idx = 0 \/ idx < -top \/ idx > res.pre.cap
              THEN res.panic = "unacceptable index"
              ELSE /\ res.panic = ""
                   /\ res.ret.n = IF idx < 0 THEN top + idx + 1 ELSE idx
           /\ \A i \in 1..top : (idx = -(top - i + 1)) => (res.panic = "" /\ res.ret.n = i)
           /\ res.panic = "" => (again.panic = "" /\ again.ret.n = res.ret.n)

\* ------------------------------------------------------------ Go closures
\* The Go closure that is running, if one is.
RunningClosure == CurFunc(Cur(0))
InCallback == callers # <<>> /\ IsGoClosure(Cur(0), RunningClosure) /\ RunningClosure.n > 0

\* A PushClosure(n, f) that returned made a closure whose upvalues are the
\* handle's userdata and then the n values that were on the top of the
\* stack, lowest first.
ClosureCapturesStep ==
    (res'.op = "PushClosure" /\ ~res'.crashed /\ res'.panic = "") =>
        LET n == res'.args[1]
            c == stack'[Len(stack')]
        IN /\ IsGoClosure(Cur(0)', c) /\ c.n > 0
           /\ Len(heap'[c.n].upv) = n + 1
           /\ SubSeq(heap'[c.n].upv, 2, n + 1) = SubSeq(stack, Len(stack) - n + 1, Len(stack))

UpvalueIndexDesignates ==
    Done("PushUpvalue") =>
        LET i == res.args[1]
            idx == UpvalueIndex(Cur(0), i)
        IN /\ (res.panic = "invalid upvalue index") <=> (i < 1 \/ i > 255)
           /\ (idx.panic # "") <=> (i < 1 \/ i > 255)
           /\ (1 <= i /\ i <= 255) =>
                  /\ idx.ret.n = RegistryIndex - (i + 1)
                  /\ idx.ret.n # goClosureUpvalueIndex
                  /\ \A j \in (1..255) \ {i} : UpvalueIndex(Cur(0), j).ret.n # idx.ret.n
           /\ (/\ InCallback /\ 1 <= i /\ i <= Len(heap[RunningClosure.n].upv) - 1
               /\ res.pre.top < res.pre.cap) =>
                  /\ res.panic = ""
                  /\ l.top = res.pre.top + 1
                  /\ stack[Len(stack)] = heap[RunningClosure.n].upv[i + 1]

\* C15: UpvalueIndex(i) panics unless 1 <= i <= 255 and otherwise returns
\* RegistryIndex - (i + 1), a different index for each i and never the
\* handle's RegistryIndex - 1; in a closure made by PushClosure(n, f) the
\* index for 1 <= i <= n yields the i-th of the n values that were pushed
\* before PushClosure.
C15_UpvalueIndex == []UpvalueIndexDesignates /\ [][ClosureCapturesStep]_vars

C15_Witness ==
    /\ Ok("PushUpvalue") /\ InCallback /\ res.args[1] = 2
    /\ Len(heap[RunningClosure.n].upv) = 3
    /\ heap[RunningClosure.n].upv[2] # heap[RunningClosure.n].upv[3]
    /\ stack[Len(stack)] = heap[RunningClosure.n].upv[3]

\* The value v is the userdata of a live handle that holds a Function.
IsFunctionHandle(v) ==
    /\ v.t = "userdata" /\ v.n \in 1..Len(heap')
    /\ HandleValid(Cur(0)', heap'[v.n].token)
    /\ handles'[heap'[v.n].token].val.fn

PushClosureStep ==
    (res'.op = "PushClosure" /\ ~res'.crashed) =>
        LET n == res'.args[1]
            c == stack'[Len(stack')]
        IN IF n < 0 \/ n > 254 \/ l.top < n
           THEN res'.panic # "" /\ l'.top = l.top
           ELSE /\ res'.panic = ""
                /\ l'.top = l.top - n + 1
                /\ Len(stack') = Len(stack) - n + 1
                /\ IsGoClosure(Cur(0)', c) /\ c.n > 0
                /\ Len(heap'[c.n].upv) = n + 1
                /\ IsFunctionHandle(heap'[c.n].upv[1])
                /\ SubSeq(heap'[c.n].upv, 2, n + 1)
                       = SubSeq(stack, Len(stack) - n + 1, Len(stack))

\* C16: PushClosure(n, f) panics and leaves the top as it was if n < 0,
\* n > 254 or top < n; in every other case it replaces the n topmost values
\* by one function (top = top before - n + 1), a closure of n + 1 upvalues:
\* the handle of f first, then the n values in the order they were pushed.
C16_PushClosure == [][PushClosureStep]_vars

\* C17: a State that was never used gets a capacity of 20 by its first use,
\* and the State a Go callback is handed starts with top = the number of
\* arguments and cap = top + 20; on either, 20 pushes of one value each, made
\* in a row without CheckStack, all succeed.
C17_TwentyPushesWithoutCheckStack ==
    /\ (res.op = "Call.enter" /\ ~res.crashed) =>
           /\ l.top = res.args[1]
           /\ l.cap = l.top + LUA_MINSTACK
           /\ VmTop = l.top /\ VmCap = l.cap
    /\ (res.pre.ptr = 0 /\ l.ptr # 0 /\ ~res.crashed) => l.cap = LUA_MINSTACK
    /\ (/\ Done("PushNils") /\ res.args[1] = LUA_MINSTACK
        /\ res.pre = ZeroState \/ res.prev.op = "Call.enter") =>
           /\ res.panic = ""
           /\ l.top = res.pre.top + LUA_MINSTACK
           /\ l.top <= l.cap
           /\ VmTop = l.top
           /\ ~ub

C17_Witness ==
    /\ Ok("PushNils") /\ res.args[1] = LUA_MINSTACK
    /\ res.prev.op = "Call.enter" /\ res.prev.args[1] = 1
    /\ callers # <<>>
    /\ l.top = 1 + LUA_MINSTACK

\* An operation that ran the trampoline zombiezen_lua_gocb to its return.
TrampolineReturned == res.op = "Call" /\ ~res.crashed /\ res.cb.ran

\* C18: when zombiezen_lua_gocb returns, the State it handed to the Go
\* function is the zero State (no VM, top 0, cap 0), whether the function
\* returned results, returned an error, panicked or returned a negative
\* count, and when the upvalue was found corrupted.
C18_CallbackStateZeroed ==
    TrampolineReturned =>
        /\ res.cb.state = ZeroState
        /\ res.cb.state.ptr = 0 /\ res.cb.state.top = 0 /\ res.cb.state.cap = 0

C18_Witness ==
    /\ TrampolineReturned /\ res.prev.op = "PushNil" /\ res.prev.panic = ""
    /\ res.cb.out.panic.k = "string"
    /\ res.cb.state = ZeroState
    /\ l.ptr # 0

\* The Go function of the last trampoline run returned an error or panicked.
CallbackFailed ==
    /\ TrampolineReturned /\ ~res.cb.corrupt
    /\ res.cb.out.err # "" \/ res.cb.out.panic.k # "none"

\* The text of that error, or of the panic's value.
FailureText == pcall(res.cb.out).err

\* The trampoline caught it: one string with the text pushed, -1 returned,
\* no Go panic out of the trampoline or out of Call, and Call reports an error.
FailureCaught ==
    /\ res.cb.pushed = <<StrV(FailureText)>>
    /\ res.cb.code = -1
    /\ res.panic = ""
    /\ ~ub
    /\ ~res.ret.b
    /\ l.top = res.pre.top - res.args[1]
    /\ VmTop = l.top

\* What the message handler at index msgh makes of an error: the first
\* result of a chunk as ToString renders it; a handler that cannot be
\* called, or that fails, ends in the VM's own message.
HandlerText(msgh) ==
    LET h == stack[Base(Cur(0)) + msgh]
        ran == IF IsLuaFunction(Cur(0), h) THEN ChunkRun(heap[h.n].fn)
               ELSE [ok |-> FALSE, vals |-> <<>>]
        e == IF ran.vals = <<>> THEN NilV ELSE ran.vals[1]
    IN IF ~ran.ok THEN "error in error handling"
       ELSE IF e.t = "string" THEN e.s
       ELSE IF e.t = "number" THEN NumStr(e)
       ELSE "ERRRUN"

\* C19 as stated: an error or a panic of a Go callback is caught by the
\* trampoline, which pushes one string with its text and returns -1, and
\* the enclosing Call returns an error carrying that text.
C19_CallbackFailureIsCallError ==
    CallbackFailed =>
        /\ FailureCaught
        /\ res.ret.s = "lua: call: " \o FailureText

\* C19, amended: as above, with the error of the enclosing Call carrying the
\* text when Call was given no message handler (msgHandler = 0), and carrying
\* what the message handler returned for it when Call was given one.
C19_CallbackFailureIsCallErrorUnlessHandled ==
    CallbackFailed =>
        /\ FailureCaught
        /\ res.args[3] = 0 =>
               /\ res.ret.s = "lua: call: " \o FailureText
               /\ stack[Len(stack)] = StrV(FailureText)
        /\ res.args[3] > 0 => res.ret.s = "lua: call: " \o HandlerText(res.args[3])

C19_Witness ==
    /\ CallbackFailed /\ res.cb.out.panic.k = "int"
    /\ res.args[3] = 0
    /\ res.ret.s = "lua: call: 7"
    /\ stack[Len(stack)] = StrV("7")

\* The Go function of the last trampoline run returned a negative count and
\* a nil error.
NegativeResults ==
    /\ TrampolineReturned /\ ~res.cb.corrupt
    /\ res.cb.out.panic.k = "none" /\ res.cb.out.err = "" /\ res.cb.out.results < 0

\* C20: a Go callback that returns a negative number of results and a nil
\* error makes the trampoline raise the Lua error "Go callback returned
\* negative results": the enclosing Call fails with it and leaves that one
\* error value, and does not succeed with no results.
C20_NegativeResultsIsError ==
    NegativeResults =>
        /\ res.cb.pushed = <<StrV("Go callback returned negative results")>>
        /\ res.cb.code = -1
        /\ res.panic = ""
        /\ ~res.ret.b
        /\ l.top = res.pre.top - res.args[1]
        /\ res.args[3] = 0 =>
               /\ res.ret.s = "lua: call: Go callback returned negative results"
               /\ stack[Len(stack)] = StrV("Go callback returned negative results")

C20_Witness ==
    /\ NegativeResults /\ res.args = <<0, 0, 0>>
    /\ res.cb.out.results = -1
    /\ res.ret.s = "lua: call: Go callback returned negative results"
    /\ l.top = 1

\* ------------------------------------------------------------ Close
\* A step that is a Close on the State of the program, outside callbacks.
CloseStep ==
    (res'.op = "Close" /\ ~res'.crashed /\ callers = <<>>) =>
        /\ res'.panic = ""
        /\ l' = ZeroState
        /\ ci' = <<>> /\ stack' = <<>> /\ heap' = <<>>
        /\ l.ptr = 0 => UNCHANGED <<l, stack, ci, heap, gmt, handles, callers, ub>>

\* The step after a Close: the operation creates a VM that holds nothing,
\* with a capacity of LUA_MINSTACK.
AfterCloseStep ==
    (/\ res.op = "Close" /\ ~res.crashed /\ callers = <<>>
     /\ nOps' = nOps + 1 /\ res'.op # "Close" /\ ~res'.crashed) =>
        /\ l'.ptr # 0
        /\ ci' # <<>>
        /\ l'.cap = LUA_MINSTACK
        /\ VmTop' = l'.top

\* C21 as stated: Close on a State with a VM closes the VM and makes the
\* State the zero State; Close on a State without one changes nothing; Close
\* never fails; and the operation that follows a Close creates a new, empty
\* VM with a capacity of 20.
C21_Close == [][CloseStep /\ AfterCloseStep]_vars

\* The operations that end in a push when they do not panic.
PushingOps ==
    {"PushNil", "PushNumber", "PushInteger", "PushString", "PushBoolean",
     "PushLightUserdata", "CreateTable", "NewUserdataUV", "PushGoValue", "PushClosure",
     "Load", "LoadString"}

\* The step after a Close: the State stays the zero State, or the operation
\* created a VM of capacity LUA_MINSTACK before its own effect; an operation
\* that pushes does create one.
AfterCloseLazyStep ==
    (/\ res.op = "Close" /\ ~res.crashed /\ callers = <<>>
     /\ nOps' = nOps + 1 /\ res'.op # "Close" /\ ~res'.crashed) =>
        /\ \/ l' = ZeroState /\ ci' = <<>> /\ stack' = <<>> /\ heap' = <<>>
           \/ /\ l'.ptr # 0 /\ ci' # <<>>
              /\ l'.cap >= LUA_MINSTACK
              /\ res'.op # "CheckStack" => l'.cap = LUA_MINSTACK
        /\ (res'.op \in PushingOps /\ res'.panic = "") =>
               l'.ptr # 0 /\ l'.top = 1 /\ l'.cap = LUA_MINSTACK

\* C21, amended: as above, except that after a Close the State stays the
\* zero State until an operation needs a VM; that operation creates a new,
\* empty VM with a capacity of 20 and then has its own effect, while an
\* operation answered from the ledger alone creates none.
C21_CloseThenLazyVm == [][CloseStep /\ AfterCloseLazyStep]_vars

C21_Witness ==
    /\ Ok("PushNil") /\ res.prev.op = "Close" /\ res.pre = ZeroState
    /\ nOps >= 3
    /\ l = [ptr |-> 1, top |-> 1, cap |-> LUA_MINSTACK]
    /\ Len(stack) = 1

\* ------------------------------------------------------------ release of handles
\* C22: when Close of a State returns, every handle that PushGoValue or
\* PushClosure allocated on it, in a call that returned or in one that
\* panicked, has been deleted, and deleted once.
C22_HandlesReleasedByClose ==
    (Done("Close") /\ callers = <<>>) =>
        \A h \in 1..Len(handles) : ~handles[h].live /\ handles[h].deletes = 1

\* ------------------------------------------------------------ loading
LoadOps == {"Load", "LoadString"}

\* The mode the last Load or LoadString was given.
LoadMode == (CHOOSE c \in Chunks : c[1] = res.sarg)[2]

\* C23: a Load or LoadString that returns has raised top by exactly 1: by a
\* function when it returns no error, by an error message when the VM
\* reports a load error or the mode is none of "bt", "t", "b"; and the top of
\* the ledger is the VM's top afterwards.
C23_LoadPushesOne ==
    (res.op \in LoadOps /\ ~res.crashed /\ res.panic = "") =>
        /\ l.top = res.pre.top + 1
        /\ VmTop = res.vtop + 1
        /\ VmTop = l.top
        /\ res.ret.b => stack[Len(stack)].t = "function"
        /\ ~res.ret.b => stack[Len(stack)].t = "string" /\ res.ret.s # ""
        /\ ~loadModeOK(LoadMode) => ~res.ret.b

C23_Witness ==
    /\ Ok("LoadString") /\ ~res.ret.b /\ ~loadModeOK(LoadMode)
    /\ res.pre.top = 1 /\ l.top = 2 /\ VmTop = 2
    /\ stack[Len(stack)].t = "string"

\* ------------------------------------------------------------ index tests
\* The operations of C24 that take one or two stack indices.
CheckedIndexOps ==
    {"PushValue", "Type", "ToString", "ToGoValue", "RawEqual", "Copy", "Rotate", "RawGet",
     "RawIndex", "RawField", "RawSet", "RawSetIndex", "RawSetField", "SetMetatable",
     "UserValue", "SetUserValue", "Next"}

\* The indices the last operation was given.
IndexArgs ==
    IF res.op \in {"Copy", "RawEqual"} THEN {res.args[1], res.args[2]} ELSE {res.args[1]}

\* C24: an operation that takes a stack index, on a State with a VM and with
\* an index that is not acceptable, panics, and the VM's stack is as it was.
C24_UnacceptableIndexPanics ==
    (/\ res.op \in CheckedIndexOps /\ res.pre.ptr # 0
     /\ \E i \in IndexArgs : ~isAcceptableIndex(res.pre, i)) =>
        /\ ~res.crashed
        /\ res.panic # ""
        /\ l.top = res.pre.top
        /\ VmTop = res.vtop

\* ------------------------------------------------------------ the zero State
\* A machine whose State was instantiated and holds nothing: init on a
\* State without a VM.
EmptiedMachine ==
    init([Cur(0) EXCEPT !.l = ZeroState, !.stack = <<>>, !.ci = <<>>, !.heap = <<>>,
                        !.gmt = NoGmt])

\* The operation op with the arguments a, on the machine m.
ApplyOp(m, op, a) ==
    CASE op = "CheckStack" -> CheckStack(m, a[1])
      [] op = "PushNil" -> PushNil(m)
      [] op = "PushInteger" -> PushInteger(m, a[1])
      [] op = "SetTop" -> SetTop(m, a[1])
      [] op = "Pop" -> Pop(m, a[1])
      [] op = "AbsIndex" -> AbsIndex(m, a[1])
      [] op = "Next" -> State_Next(m, a[1])
      [] OTHER -> m

ComparedOps == {"CheckStack", "PushNil", "PushInteger", "SetTop", "Pop", "AbsIndex", "Next"}

\* C25: an operation on a State that has no VM ends as the same operation
\* with the same arguments on a State that was instantiated and emptied:
\* the same result, a panic in both or in neither, and the same top.
C25_ZeroStateAsEmptied ==
    (res.op \in ComparedOps /\ res.pre = ZeroState /\ ~res.crashed) =>
        LET twin == ApplyOp(EmptiedMachine, res.op, res.args)
        IN /\ (res.panic # "") <=> (twin.panic # "")
           /\ res.ret = twin.ret
           /\ l.top = twin.l.top


\* ------------------------------------------------------------ message handlers
HandlerOps == {"Call", "Table", "Field", "Global", "SetTable", "SetField", "SetGlobal"}

\* The message handler argument of the last operation.
HandlerArg == IF res.op = "Call" THEN res.args[3] ELSE res.args[2]

\* The argument is 0 or designates an element that was on the stack.
HandlerOnStack ==
    \/ HandlerArg = 0
    \/ 1 <= HandlerArg /\ HandlerArg <= res.pre.top
    \/ -res.pre.top <= HandlerArg /\ HandlerArg <= -1

\* C26: an operation that takes a message handler panics when the handler
\* is a pseudo-index, and when it is neither 0 nor the index of an element
\* on the stack.
C26_MessageHandlerChecked ==
    (res.op \in HandlerOps /\ ~res.crashed /\ ~HandlerOnStack) => res.panic # ""


\* ------------------------------------------------------------ error objects
ProtectedOps == {"Call", "Table", "Field", "SetTable", "SetField"}

\* The machine as the foreign call of the operation leaves it, before the Go
\* method reads the error: the error object raised is on top when it failed.
RaisedBy(m, op, a, k) ==
    CASE op = "Call" -> lua_pcallk(m, CInt(a[1]), CInt(a[2]), 0)
      [] op = "Table" -> gettable(m, CInt(a[1]), 0)
      [] op = "Field" ->
             gettable(PushString(init(m), k), CInt(AbsIndex(init(m), a[1]).ret.n), 0)
      [] op = "SetTable" -> settable(m, CInt(a[1]), 0)
      [] op = "SetField" ->
             settable(Rotate(PushString(m, k), -2, 1), CInt(AbsIndex(m, a[1]).ret.n), 0)
      [] OTHER -> m

\* A protected operation without a message handler returned an error.
FailedUnhandled ==
    /\ res.op \in ProtectedOps /\ HandlerArg = 0
    /\ ~res.crashed /\ res.panic = "" /\ ~res.ret.b

ErrorObjectKeptStep ==
    FailedUnhandled' =>
        /\ stack' # <<>>
        /\ stack'[Len(stack')] = vmTopValue(RaisedBy(Cur(0), res'.op, res'.args, res'.sarg), 0)

\* C27: when a protected operation without a message handler fails, the
\* value on top of the stack afterwards is the error object that was raised,
\* with its type and value.
C27_ErrorObjectUnmodified == [][ErrorObjectKeptStep]_vars


\* ------------------------------------------------------------ SetGlobal
\* A SetGlobal that returned: on success the value is gone and nothing else
\* has moved; on failure the value has given way to the error object, whose
\* text the returned error carries.
SetGlobalStep ==
    (res'.op = "SetGlobal" /\ ~res'.crashed /\ res'.panic = "") =>
        IF res'.ret.b
        THEN /\ l'.top = l.top - 1
             /\ stack' = SubSeq(stack, 1, Len(stack) - 1)
        ELSE /\ l'.top = l.top
             /\ Len(stack') = Len(stack)
             /\ SubSeq(stack', 1, Len(stack) - 1) = SubSeq(stack, 1, Len(stack) - 1)
             /\ stack'[Len(stack')].t = "string"
             /\ res'.ret.s = "lua: set field \"" \o res'.sarg \o "\": "
                                 \o stack'[Len(stack')].s

\* C28: SetGlobal pops the value on success (top decreases by 1); when it
\* fails, the error object stands where the value was (top unchanged); the
\* globals table is on the stack in neither case.
C28_SetGlobalLeavesErrorObject == [][SetGlobalStep]_vars


\* ------------------------------------------------------------ user values
\* The position, from the bottom, of the index the last operation was given.
TargetPos ==
    IF res.args[1] > 0 THEN res.args[1] ELSE res.pre.top + res.args[1] + 1

\* The index designated a full userdata on the stack before the operation.
OnUserdata ==
    /\ res.pre.ptr # 0
    /\ 1 <= TargetPos /\ TargetPos <= res.pre.top

\* The user values of the userdata at a position of the stack.
TargetUV(m, pos) == m.heap[index2value(m, pos).v.n].uv

UserValueStep ==
    (/\ res'.op = "UserValue" /\ ~res'.crashed /\ res'.panic = ""
     /\ \/ res'.args[2] < 1
        \/ OnUserdata' /\ IsFullUserdata(Cur(0), index2value(Cur(0), TargetPos').v)) =>
        /\ l'.top = l.top + 1
        /\ Len(stack') = Len(stack) + 1
        /\ IF res'.args[2] >= 1 /\ res'.args[2] <= Len(TargetUV(Cur(0), TargetPos'))
           THEN /\ stack'[Len(stack')] = TargetUV(Cur(0), TargetPos')[res'.args[2]]
                /\ res'.ret.s = stack'[Len(stack')].t
           ELSE /\ stack'[Len(stack')] = NilV
                /\ res'.ret.s = "none"

\* What UserValue pushes for the index and the user value of the last
\* operation.
ReadBack == vmTopValue(UserValue(Cur(0), TargetPos, res.args[2]), 0)

SetUserValueStep ==
    (res'.op = "SetUserValue" /\ ~res'.crashed) =>
        /\ l.top < 1 => res'.panic # ""
        /\ (/\ l.top >= 1 /\ OnUserdata'
            /\ IsFullUserdata(Cur(0), index2value(Cur(0), TargetPos').v)) =>
               /\ res'.panic = ""
               /\ l'.top = l.top - 1
               /\ Len(stack') = Len(stack) - 1
               /\ res'.ret.b <=>
                      (res'.args[2] >= 1 /\ res'.args[2] <= Len(TargetUV(Cur(0), TargetPos')))
               /\ (res'.ret.b /\ TargetPos' <= l'.top /\ l'.top < l'.cap) =>
                      ReadBack' = stack[Len(stack)]

\* C29: UserValue pushes exactly one value, the n-th user value with its
\* type, or nil with TypeNone when there is none; SetUserValue pops exactly
\* one value, panics on an empty stack, succeeds on a full one, reports
\* whether the userdata has an n-th user value, and UserValue then yields
\* the value stored.
C29_UserValues == [][UserValueStep /\ SetUserValueStep]_vars

\* ------------------------------------------------------------ Copy and Replace
\* The position, from the bottom, of a non-pseudo index of the stack before
\* the step.
PosOf(idx) == IF idx > 0 THEN idx ELSE l.top + idx + 1

\* The destination of the last Copy or Replace.
DestArg == IF res.op = "Copy" THEN res.args[2] ELSE res.args[1]

CopyStep ==
    (res'.op = "Copy" /\ ~res'.crashed) =>
        /\ ~isValidIndex(l, DestArg') => res'.panic # ""
        /\ res'.panic = "" =>
               /\ l'.top = l.top
               /\ Len(stack') = Len(stack)
               /\ \A i \in 1..Len(stack) :
                      IF ~isPseudo(DestArg') /\ i = PosOf(DestArg')
                      THEN stack'[i] = stack[PosOf(res'.args[1])]
                      ELSE stack'[i] = stack[i]

ReplaceStep ==
    (res'.op = "Replace" /\ ~res'.crashed) =>
        /\ ~isValidIndex(l, DestArg') => res'.panic # ""
        /\ res'.panic = "" =>
               /\ l'.top = l.top - 1
               /\ Len(stack') = Len(stack) - 1
               /\ \A i \in 1..Len(stack') :
                      IF ~isPseudo(DestArg') /\ i = PosOf(DestArg')
                      THEN stack'[i] = stack[Len(stack)]
                      ELSE stack'[i] = stack[i]

\* C30: Copy and Replace panic unless the destination is a valid index (an
\* element of the stack or a pseudo-index), so a destination above the top
\* is rejected; Copy changes the destination only and leaves the top as it
\* was; Replace lowers the top by exactly 1.
C30_CopyIntoValidIndexOnly == [][CopyStep /\ ReplaceStep]_vars


\* ------------------------------------------------------------ ToString (package level)
\* The value the last operation's index designated before the step, and its
\* __tostring metafield (nil when it has none).
ArgValue == index2value(Cur(0), CInt(res'.args[1])).v
ToStringField ==
    IF MetatableOf(Cur(0), ArgValue) = 0 THEN NilV
    ELSE TGet(heap[MetatableOf(Cur(0), ArgValue)], StrV("__tostring"))

\* What calling the metafield yields: the first result of the function, nil
\* when it returns nothing, and no result when the call fails.
ToStringCall ==
    IF IsLuaFunction(Cur(0), ToStringField) /\ ChunkRun(heap[ToStringField.n].fn).ok
    THEN [ok |-> TRUE,
          v |-> IF ChunkRun(heap[ToStringField.n].fn).vals = <<>> THEN NilV
                ELSE ChunkRun(heap[ToStringField.n].fn).vals[1]]
    ELSE [ok |-> FALSE, v |-> NilV]

ToStringStep ==
    (res'.op = "lua.ToString" /\ ~res'.crashed /\ res'.panic = "") =>
        /\ l'.top = l.top
        /\ Len(stack') = Len(stack)
        /\ IF ToStringField # NilV
           THEN IF ToStringCall.ok /\ ToStringCall.v.t = "string"
                THEN res'.ret.b /\ res'.ret.s = ToStringCall.v.s
                ELSE ~res'.ret.b
           ELSE /\ res'.ret.b
                /\ ArgValue.t = "number" => res'.ret.s = ToString(ArgValue.n)
                /\ ArgValue.t = "table" =>
                       res'.ret.s = "table: 0x" \o ToString(ArgValue.n)

\* C31: ToString(l, idx) on a value with a __tostring metafield returns the
\* string the metamethod produced, or an error when the call fails or yields
\* no string; on any other value it returns the value formatted by its type;
\* and the stack is as high afterwards as before.
C31_ToStringUsesMetamethod == [][ToStringStep]_vars

\* ---------------------------------------------------------------------------
\* Every State against the VM's top

\* The States in existence: the one operated on, and the States of the Call
\* invocations that wait for a Go function to return.
LiveStates == {l} \cup {callers[i].l : i \in 1..Len(callers)}

\* C32: every State's shadow top is the top the VM reports for its thread,
\* also the top of a State whose Call is running a Go function.
C32_EveryStateTopIsVmTop == \A st \in LiveStates : st.ptr # 0 => st.top = VmTop

\* ---------------------------------------------------------------------------
\* Acceptable indices

\* The last operation was Type on a State with a VM, given a non-pseudo index.
TypeOfStackIndex ==
    /\ res.op = "Type" /\ ~res.crashed /\ res.pre.ptr # 0
    /\ ~isPseudo(res.args[1])

InAcceptableRanges(st, idx) ==
    \/ -st.top <= idx /\ idx <= -1
    \/ 1 <= idx /\ idx <= st.cap

\* C33: the non-pseudo indices accepted are the negative ones from -top to -1
\* and the positive ones from 1 to cap; 0 is never accepted, whatever the top.
C33_AcceptableIndexRanges ==
    TypeOfStackIndex =>
        (res.panic # "unacceptable index" <=> InAcceptableRanges(res.pre, res.args[1]))

\* ---------------------------------------------------------------------------
\* Who asks the VM for capacity

CapacityUsers ==
    {"PushGoValue", "PushClosure", "Table", "Field", "Global", "SetTable", "SetField",
     "SetGlobal"}

\* C34: only CheckStack asks the VM for more capacity; the operations that
\* need free slots for Go values, closures and protected table access leave
\* cap as it was, whether they succeed or panic with "stack overflow".
C34_OnlyCheckStackRaisesCap ==
    [][(res'.op \in CapacityUsers /\ ~res'.crashed /\ l.ptr # 0) => l'.cap = l.cap]_vars

\* ---------------------------------------------------------------------------
\* ToGoValue as a query

\* C35: ToGoValue on an acceptable index returns without a panic and leaves
\* top and cap as they were, however few slots are free.
C35_ToGoValueIsPureQuery ==
    (/\ res.op = "ToGoValue" /\ ~res.crashed /\ res.pre.ptr # 0
     /\ isAcceptableIndex(res.pre, res.args[1])) =>
        /\ res.panic = ""
        /\ l.top = res.pre.top /\ l.cap = res.pre.cap

\* ---------------------------------------------------------------------------
\* Next and the capacity

\* C36: Next never leaves top above cap: it panics on an empty stack, and
\* when it returns it has raised top by one (true, a pair was pushed) or
\* lowered it by one (false), within the capacity.
C36_NextStaysWithinCap ==
    (Done("Next") /\ ~ub) =>
        /\ res.pre.top = 0 => res.panic # ""
        /\ res.panic = "" =>
               l.top = res.pre.top + (IF res.ret.b THEN 1 ELSE -1)
        /\ l.top <= l.cap

\* ---------------------------------------------------------------------------
\* The handle metatable

\* What the registry of the VM with heap h holds under the handles' name.
HandleMetatable(h) ==
    IF h = <<>> THEN NilV ELSE TGet(h[RegistryId], StrV(handleMetatableName))

\* The userdata a PushGoValue or PushClosure has just made: the top value or
\* upvalue 1 of the closure on the top.
PushedHandle ==
    LET c == stack'[Len(stack')]
    IN IF res'.op = "PushClosure" THEN heap'[c.n].upv[1] ELSE c

\* A step of pushHandle or NewMetatable on a State that keeps its VM.
HandleMetatableOps == {"PushGoValue", "PushClosure", "lua.NewMetatable"}

HandleMetatableStep ==
    (/\ nOps' # nOps /\ res'.op \in HandleMetatableOps /\ ~res'.crashed
     /\ res'.sarg # "nil") =>
        LET before == IF l.ptr = 0 THEN NilV ELSE HandleMetatable(heap)
            after == HandleMetatable(heap')
        IN /\ before.t = "table" => after = before
           /\ (res'.op # "lua.NewMetatable" /\ res'.panic = "") =>
                  /\ after.t = "table"
                  /\ IsFullUserdata(Cur(0)', PushedHandle)
                  /\ heap'[PushedHandle.n].mt = after.n
           /\ (res'.op = "lua.NewMetatable" /\ res'.panic = "") =>
                  /\ res'.ret.b <=> before = NilV
                  /\ l'.top = (IF l.ptr = 0 THEN 0 ELSE l.top) + 1
                  /\ stack'[Len(stack')] = after

\* C37: the handles' metatable is created once per VM and reused: a handle
\* userdata gets the table the registry holds under "runtime/cgo.Handle", that
\* entry stays the same table once it is one, and NewMetatable returns true
\* exactly when it created the entry and leaves the entry as one more value.
C37_HandleMetatableCreatedOnce == [][HandleMetatableStep]_vars

\* Two Go values pushed one after the other carry one and the same metatable.
C37_Witness ==
    /\ Ok("PushGoValue") /\ res.sarg = "" /\ res.prev.op = "PushGoValue"
    /\ res.prev.panic = "" /\ res.prev.sarg = "" /\ l.top = 2
    /\ IsFullUserdata(Cur(0), stack[1]) /\ IsFullUserdata(Cur(0), stack[2])
    /\ stack[1] # stack[2]
    /\ heap[stack[1].n].mt = heap[stack[2].n].mt
    /\ heap[stack[2].n].mt = HandleMetatable(heap).n

\* ---------------------------------------------------------------------------
\* Released handles

\* v is a userdata that pushHandle made and whose handle the finalizer has
\* released.
ReleasedHandle(v) ==
    /\ IsFullUserdata(Cur(0), v) /\ heap[v.n].origin # 0
    /\ ~handles[heap[v.n].origin].live

\* The value the coming ToGoValue is given.
ToGoValueTarget == index2value(Cur(0), CInt(res'.args[1])).v

\* The function the coming Call is given (a step that shortens callers is
\* the return of a Go function, not a Call).
CallTarget == stack[Len(stack) - res'.args[1]]

ReleasedHandleStep ==
    /\ (/\ nOps' # nOps /\ res'.op = "ToGoValue" /\ ~res'.crashed /\ l.ptr # 0
        /\ isAcceptableIndex(l, res'.args[1]) /\ ReleasedHandle(ToGoValueTarget)) =>
           /\ res'.panic = "" /\ ~res'.ret.b /\ ~ub'
           /\ handles' = handles /\ l' = l
    /\ (/\ nOps' # nOps /\ res'.op \in {"Call", "Call.enter"} /\ ~res'.crashed
        /\ Len(callers') >= Len(callers)
        /\ res'.args[1] >= 0 /\ l.top >= res'.args[1] + 1 /\ res'.args[3] = 0
        /\ IsGoClosure(Cur(0), CallTarget)
        /\ ReleasedHandle(heap[CallTarget.n].upv[1])) =>
           /\ res'.op = "Call" /\ res'.panic = "" /\ ~ub'
           /\ ~res'.ret.b /\ res'.ret.s = "lua: call: Go closure upvalue corrupted"
           /\ res'.cb.ran /\ res'.cb.corrupt
           /\ handles' = handles

ReleasedValueReadBack ==
    /\ Ok("ToGoValue") /\ ~res.ret.b /\ res.args[1] = 1 /\ Len(stack) >= 1
    /\ ReleasedHandle(stack[1])

\* ---------------------------------------------------------------------------
\* The count the trampoline reports

\* A step in which a Go function returns and its trampoline reports to the VM.
TrampolineReports ==
    /\ nOps' # nOps /\ Len(callers') < Len(callers)
    /\ res'.op = "Call" /\ ~res'.crashed /\ res'.cb.ran /\ ~res'.cb.corrupt

\* C39: the count the trampoline reports is at most the number of values on
\* the callback's stack; a Go function that returns a larger count gets an
\* error instead.
C39_ReportedCountWithinTop ==
    [][TrampolineReports => (res'.cb.code <= VmTop /\ ~ub')]_vars

\* ---------------------------------------------------------------------------
\* No memory for a VM

\* The last operation needed a VM on a State that had none, and
\* luaL_newstate returned NULL.
NewStateFailed ==
    /\ res.sarg = "nomem" /\ res.pre.ptr = 0
    /\ \/ res.op = "PushNil"
       \/ res.op = "CheckStack" /\ res.args[1] > 0 /\ res.args[1] < MaxInt

\* C40: when luaL_newstate returns NULL the operation panics with "could not
\* allocate memory for new state", and the process does not go on to call the
\* VM with the NULL pointer.
C40_NewStateFailurePanics ==
    NewStateFailed =>
        /\ ~res.crashed /\ ~ub
        /\ res.panic = "could not allocate memory for new state"

====
